---- MODULE Spec2Model ----
(***************************************************************************)
(* A model of github.com/mastercactapus/proxyprotocol: the PROXY header   *)
(* codec (Parse, parseV1, parseV2, HeaderV2.WriteTo), the lazy connection *)
(* wrapper (Conn) and the listener's subnet rule table (Listener).        *)
(*                                                                         *)
(* Bytes are integers 0..255 and byte slices are sequences of bytes.      *)
(* Five specifications share the module:                                   *)
(*   Spec              a Conn used by concurrent goroutines                *)
(*   SpecCodec         the codec functions applied to bounded inputs       *)
(*   SpecTLV           TLV.WriteTo and ParseTLVs                           *)
(*   SpecListener      SetFilter / SetDefaultTimeout / Accept, in sequence *)
(*   SpecListenerConc  the same calls made by concurrent goroutines        *)
(*                                                                         *)
(* The source tree holds two definitions of parseV2 (src/headerv2.go and  *)
(* src/parse.go).  Both are modelled; the variable "build" says which one *)
(* the package was built with.                                             *)
(***************************************************************************)
EXTENDS Integers, Sequences, FiniteSets, TLC

\* ------------------------------------------------------------------ bytes

Min2(a, b) == IF a <= b THEN a ELSE b

Max2(a, b) == IF a >= b THEN a ELSE b

\* n zero bytes: the contents of make([]byte, n)
Zeros(n) == [i \in 1..n |-> 0]

\* Go's s[a:b] on a sequence, 0-based, a <= b <= Len(s)
Slice(s, a, b) == SubSeq(s, a + 1, b)

\* binary.BigEndian.Uint16 of the two bytes hi, lo
Uint16(hi, lo) == hi * 256 + lo

\* the two big-endian bytes of uint16(v): the conversion truncates to 16 bits
PutUint16(v) == << (v % 65536) \div 256, v % 256 >>

\* strings.TrimRight(s, "\x00")
TrimRightNul(s) ==
    IF \A i \in 1..Len(s) : s[i] = 0 THEN << >>
    ELSE SubSeq(s, 1, CHOOSE i \in 1..Len(s) : s[i] # 0 /\ \A j \in (i + 1)..Len(s) : s[j] = 0)

\* ------------------------------------------------------------- addresses

\* a net.Addr value; kind "nil" is the nil interface
NilAddr == [kind |-> "nil", IP |-> << >>, Port |-> 0, Net |-> "", Name |-> << >>]

TCPAddr(ip, port) == [kind |-> "tcp", IP |-> ip, Port |-> port, Net |-> "tcp", Name |-> << >>]

UDPAddr(ip, port) == [kind |-> "udp", IP |-> ip, Port |-> port, Net |-> "udp", Name |-> << >>]

UnixAddr(net, name) == [kind |-> "unix", IP |-> << >>, Port |-> 0, Net |-> net, Name |-> name]

\* ---------------------------------------------------------------- errors

NoErr == [kind |-> "nil", msg |-> "", Read |-> << >>]

\* an error that is not an *InvalidHeaderErr (io.EOF, a net timeout, errors.New)
RawErr(m) == [kind |-> "error", msg |-> m, Read |-> << >>]

InvalidHeaderErr(m, read) == [kind |-> "InvalidHeaderErr", msg |-> m, Read |-> read]

\* ---------------------------------------------------------------- headers

NoHdr == [ver |-> 0]

CommandLocal == 0

CommandProxy == 1

AddrFamilyUnspec == 0

AddrFamilyInet == 1

AddrFamilyInet6 == 2

AddrFamilyUnix == 3

ProtoUnspec == 0

ProtoStream == 1

ProtoDGram == 2

HeaderV2(cmd, fam, proto, src, dst, trailing) ==
    [ver |-> 2, Command |-> cmd, Family |-> fam, Protocol |-> proto,
     SourceAddr |-> src, DestAddr |-> dst, Trailing |-> trailing]

sigV2 == << 13, 10, 13, 10, 0, 13, 10, 81, 85, 73, 84, 10 >>

\* ----------------------------------------------------------- the reader
\* A reader is the sequence s of bytes still to come and endErr, the error
\* a read returns once s is used up: "EOF" for a closed stream, or the
\* timeout error of a read deadline.  What a decoder returns:
\*   hdr, err   the function's results
\*   n          the number of bytes it consumed from the reader
\*   panic      TRUE when the call did not return but panicked

Returned(hdr, err, n) == [hdr |-> hdr, err |-> err, n |-> n, panic |-> FALSE]

Panicked(n) == [hdr |-> NoHdr, err |-> NoErr, n |-> n, panic |-> TRUE]

\* io.ReadFull's error after reading got < want bytes
ReadFullErr(got, endErr) ==
    IF endErr = "EOF" THEN (IF got = 0 THEN "EOF" ELSE "unexpected EOF") ELSE endErr


\* --------------------------------------------------- binary header decode
\* A Go byte slice during parseV2 is (arr, blen): arr holds the cap(buf)
\* bytes of the backing array and blen is len(buf).  Go allows buf[a:b] up
\* to the capacity, buf[a:] up to the length, and panics otherwise.

\* buf[a:b] does not panic
SliceOK(arr, a, b) == a <= b /\ b <= Len(arr)

\* binary.BigEndian.Uint16(buf[a:]) does not panic
U16OK(blen, a) == a <= blen /\ blen - a >= 2

\* binary.BigEndian.Uint16(buf[a:])
U16At(arr, a) == Uint16(arr[a + 1], arr[a + 2])

\* the address block size of the switch on rawHdr.FamProto
addrLen(FamProto) ==
    IF FamProto \in {17, 18} THEN 12
    ELSE IF FamProto \in {33, 34} THEN 36
    ELSE IF FamProto \in {49, 50} THEN 216
    ELSE 0

\* the IP/port cases 0x11, 0x12, 0x21, 0x22: ipLen is 4 or 16
inetAddrsOK(arr, blen, ipLen) ==
    /\ SliceOK(arr, 16, 16 + ipLen)
    /\ U16OK(blen, 16 + 2 * ipLen)
    /\ SliceOK(arr, 16 + ipLen, 16 + 2 * ipLen)
    /\ U16OK(blen, 18 + 2 * ipLen)

\* the switch statement and h.Trailing = buf[16+addrLen:], after the
\* declared bytes were read into buf; n is the number of bytes consumed
decodeAddrs(arr, blen, FamProto, cmd, fam, proto, n) ==
    LET al == addrLen(FamProto)
        ipLen == IF FamProto \in {17, 18} THEN 4 ELSE 16
        mk(ip, port) == IF FamProto \in {17, 33} THEN TCPAddr(ip, port) ELSE UDPAddr(ip, port)
        unet == IF FamProto = 49 THEN "unix" ELSE "unixgram"
        switchOK ==
            IF FamProto \in {17, 18, 33, 34} THEN inetAddrsOK(arr, blen, ipLen)
            ELSE IF FamProto \in {49, 50} THEN SliceOK(arr, 16, 124) /\ SliceOK(arr, 124, 232)
            ELSE TRUE
        src == IF FamProto \in {17, 18, 33, 34}
               THEN mk(Slice(arr, 16, 16 + ipLen), U16At(arr, 16 + 2 * ipLen))
               ELSE IF FamProto \in {49, 50} THEN UnixAddr(unet, TrimRightNul(Slice(arr, 16, 124)))
               ELSE NilAddr
        dst == IF FamProto \in {17, 18, 33, 34}
               THEN mk(Slice(arr, 16 + ipLen, 16 + 2 * ipLen), U16At(arr, 18 + 2 * ipLen))
               ELSE IF FamProto \in {49, 50} THEN UnixAddr(unet, TrimRightNul(Slice(arr, 124, 232)))
               ELSE NilAddr
    IN IF ~switchOK \/ 16 + al > blen THEN Panicked(n)
       ELSE Returned(HeaderV2(cmd, fam, proto, src, dst, Slice(arr, 16 + al, blen)), NoErr, n)

\* the checks of the 16-byte prefix without the one of the protocol
prefixErrNoProtocol(s) ==
    LET VerCmd == s[13]
        FamProto == s[14]
    IN IF SubSeq(s, 1, 12) # sigV2 THEN "invalid signature"
       ELSE IF VerCmd \div 16 # 2 THEN "invalid v2 version value"
       ELSE IF VerCmd % 16 > CommandProxy THEN "invalid v2 command"
       ELSE IF FamProto \div 16 > AddrFamilyUnix THEN "invalid v2 address family"
       ELSE ""

\* the checks of the 16-byte prefix, in source order; "" when all pass
prefixErr(s) ==
    LET VerCmd == s[13]
        FamProto == s[14]
    IN IF SubSeq(s, 1, 12) # sigV2 THEN "invalid signature"
       ELSE IF VerCmd \div 16 # 2 THEN "invalid v2 version value"
       ELSE IF VerCmd % 16 > CommandProxy THEN "invalid v2 command"
       ELSE IF FamProto \div 16 > AddrFamilyUnix THEN "invalid v2 address family"
       ELSE IF FamProto % 16 > ProtoDGram THEN "invalid v2 transport protocol"
       ELSE ""

\* parseV2 of src/headerv2.go: buf is cut or grown to 16+Len bytes
parseV2(s, endErr) ==
    IF Len(s) < 16
    THEN Returned(NoHdr, InvalidHeaderErr(ReadFullErr(Len(s), endErr), s), Len(s))
    ELSE IF prefixErr(s) # ""
    THEN Returned(NoHdr, InvalidHeaderErr(prefixErr(s), SubSeq(s, 1, 16)), 16)
    ELSE LET rawLen == Uint16(s[15], s[16])
             blen == 16 + rawLen
             cap == IF 16 + rawLen > 232 THEN 16 + rawLen ELSE 232
             avail == Len(s) - 16
         IN IF avail < rawLen
            THEN Returned(NoHdr, InvalidHeaderErr(ReadFullErr(avail, endErr), s), Len(s))
            ELSE decodeAddrs(SubSeq(s, 1, blen) \o Zeros(cap - blen), blen, s[14],
                             s[13] % 16, s[14] \div 16, s[14] % 16, blen)

\* parseV2 of src/parse.go: buf stays 232 bytes unless Len > 232, and
\* io.ReadFull(r, buf[16:]) fills all of it
parseV2_parse_go(s, endErr) ==
    IF Len(s) < 16
    THEN Returned(NoHdr, InvalidHeaderErr(ReadFullErr(Len(s), endErr), s), Len(s))
    ELSE IF prefixErr(s) # ""
    THEN Returned(NoHdr, InvalidHeaderErr(prefixErr(s), SubSeq(s, 1, 16)), 16)
    ELSE LET rawLen == Uint16(s[15], s[16])
             blen == IF rawLen > 232 THEN 16 + rawLen ELSE 232
             avail == Len(s) - 16
         IN IF avail < blen - 16
            THEN Returned(NoHdr, InvalidHeaderErr(ReadFullErr(avail, endErr), s), Len(s))
            ELSE decodeAddrs(SubSeq(s, 1, blen), blen, s[14],
                             s[13] % 16, s[14] \div 16, s[14] % 16, blen)


\* --------------------------------------------------- binary header encode
\* What HeaderV2.WriteTo leaves behind: the bytes written to w, the error
\* message it returned ("" for nil), and whether it panicked instead.

Written(bytes, err) == [bytes |-> bytes, err |-> err, panic |-> FALSE]

WritePanicked == [bytes |-> << >>, err |-> "", panic |-> TRUE]

\* setAddr: the address block it leaves in addr.  Its error return is
\* dropped by every caller, so on a length mismatch addr keeps its 216 zeros.
setAddr(srcIP, dstIP, srcPort, dstPort, ipLen) ==
    IF Len(srcIP) # ipLen THEN Zeros(216)
    ELSE IF Len(dstIP) # ipLen THEN Zeros(216)
    ELSE srcIP \o dstIP \o PutUint16(srcPort) \o PutUint16(dstPort)

\* copy(addr, src.Name); copy(addr[108:], dst.Name) into 216 zero bytes
unixBlock(srcName, dstName) ==
    [i \in 1..216 |->
        IF i <= 108 THEN (IF i <= Len(srcName) THEN srcName[i] ELSE 0)
        ELSE (IF i - 108 <= Len(dstName) THEN dstName[i - 108] ELSE 0)]

\* a WriteTo that refuses a header whose length does not fit rawHdr.Len
writeV2Checked(VerCmd, FamProto, addr, Trailing) ==
    IF 16 + Len(addr) + Len(Trailing) > 65535 THEN Written(<< >>, "header too long")
    ELSE Written(sigV2 \o << VerCmd, FamProto >> \o PutUint16(16 + Len(addr) + Len(Trailing))
                 \o addr \o Trailing, "")

\* rawHdr followed by addr and h.Trailing; rawHdr.Len is a uint16
writeV2(VerCmd, FamProto, addr, Trailing) ==
    Written(sigV2 \o << VerCmd, FamProto >> \o PutUint16(16 + Len(addr) + Len(Trailing))
            \o addr \o Trailing, "")

\* HeaderV2.WriteTo to a writer that never fails (a bytes.Buffer)
WriteTo(h) ==
    LET VerCmd == 32 + (h.Command % 16)
        FamProto == ((h.Family * 16) % 256) + (h.Protocol % 16)
        src == h.SourceAddr
        dst == h.DestAddr
        want == IF FamProto \in {17, 33} THEN "tcp" ELSE "udp"
        unet == IF FamProto = 49 THEN "unix" ELSE "unixgram"
    IN IF FamProto \in {17, 18, 33, 34}
       THEN \* a failed type assertion leaves a nil pointer, and src.IP panics
            IF src.kind # want \/ dst.kind # want THEN WritePanicked
            ELSE writeV2(VerCmd, FamProto,
                         setAddr(src.IP, dst.IP, src.Port, dst.Port,
                                 IF FamProto \in {17, 18} THEN 4 ELSE 16),
                         h.Trailing)
       ELSE IF FamProto \in {49, 50}
       THEN IF src.kind # "unix" \/ src.Net # unet \/ Len(src.Name) > 108
            THEN Written(<< >>, "invalid source address")
            \* dst is asserted from h.SourceAddr, so the second check repeats the first
            ELSE writeV2(VerCmd, FamProto, unixBlock(src.Name, src.Name), h.Trailing)
       ELSE writeV2(VerCmd, FamProto, Zeros(216), h.Trailing)


\* ------------------------------------------------------- net.ParseIP
\* Text is a sequence of ASCII codes.  ParseIP returns the 16-byte form of
\* the address (an IPv4 address comes back IPv4-mapped), or << >> for nil.

IsDigit(c) == c >= 48 /\ c <= 57

IsHex(c) == IsDigit(c) \/ (c >= 97 /\ c <= 102) \/ (c >= 65 /\ c <= 70)

HexVal(c) == IF IsDigit(c) THEN c - 48 ELSE IF c >= 97 THEN c - 87 ELSE c - 55

\* index of the first c in s, 0 when there is none
IndexOf(s, c) ==
    IF \E i \in 1..Len(s) : s[i] = c
    THEN CHOOSE i \in 1..Len(s) : s[i] = c /\ \A j \in 1..(i - 1) : s[j] # c
    ELSE 0

RECURSIVE Split(_, _)
Split(s, sep) ==
    LET i == IndexOf(s, sep)
    IN IF i = 0 THEN << s >>
       ELSE << SubSeq(s, 1, i - 1) >> \o Split(SubSeq(s, i + 1, Len(s)), sep)

RECURSIVE DecVal(_)
DecVal(f) == IF f = << >> THEN 0 ELSE DecVal(SubSeq(f, 1, Len(f) - 1)) * 10 + (f[Len(f)] - 48)

RECURSIVE HexNum(_)
HexNum(f) == IF f = << >> THEN 0 ELSE HexNum(SubSeq(f, 1, Len(f) - 1)) * 16 + HexVal(f[Len(f)])

\* one dotted-decimal field: digits only, no leading zero, at most 255
OctetOK(f) ==
    /\ Len(f) \in 1..3
    /\ \A i \in 1..Len(f) : IsDigit(f[i])
    /\ (Len(f) > 1 => f[1] # 48)
    /\ DecVal(f) <= 255

\* the 4 bytes of a dotted-decimal IPv4 literal, << >> when malformed
parseIPv4(s) ==
    LET f == Split(s, 46)
    IN IF Len(f) = 4 /\ \A i \in 1..4 : OctetOK(f[i])
       THEN [i \in 1..4 |-> DecVal(f[i])]
       ELSE << >>

v4InV6Prefix == << 0, 0, 0, 0, 0, 0, 0, 0, 0, 0, 255, 255 >>

GroupOK(f) == Len(f) \in 1..4 /\ \A i \in 1..Len(f) : IsHex(f[i])

\* the bytes of a colon-separated run of hex groups whose last field may be
\* a dotted IPv4 literal when v4last; << -1 >> when a field is malformed
RECURSIVE groupBytes(_, _)
groupBytes(f, v4last) ==
    IF f = << >> THEN << >>
    ELSE IF Len(f) = 1 /\ v4last /\ IndexOf(f[1], 46) # 0
    THEN (IF parseIPv4(f[1]) = << >> THEN << -1 >> ELSE parseIPv4(f[1]))
    ELSE IF ~GroupOK(f[1]) THEN << -1 >>
    ELSE LET rest == groupBytes(Tail(f), v4last)
         IN IF rest = << -1 >> THEN << -1 >>
            ELSE << HexNum(f[1]) \div 256, HexNum(f[1]) % 256 >> \o rest

\* index of the first "::" in s, 0 when there is none
EllipsisAt(s) ==
    IF \E i \in 1..(Len(s) - 1) : s[i] = 58 /\ s[i + 1] = 58
    THEN CHOOSE i \in 1..(Len(s) - 1) :
            /\ s[i] = 58 /\ s[i + 1] = 58
            /\ \A j \in 1..(i - 1) : ~(s[j] = 58 /\ s[j + 1] = 58)
    ELSE 0

\* the 16 bytes of an IPv6 literal (one optional "::", an optional trailing
\* dotted IPv4, no zone), << >> when malformed
parseIPv6(s) ==
    LET e == EllipsisAt(s)
        left == SubSeq(s, 1, e - 1)
        right == SubSeq(s, e + 2, Len(s))
        lb == IF left = << >> THEN << >> ELSE groupBytes(Split(left, 58), FALSE)
        rb == IF right = << >> THEN << >> ELSE groupBytes(Split(right, 58), TRUE)
        all == groupBytes(Split(s, 58), TRUE)
    IN IF e = 0
       THEN (IF all # << -1 >> /\ Len(all) = 16 THEN all ELSE << >>)
       ELSE IF lb = << -1 >> \/ rb = << -1 >> \/ Len(lb) + Len(rb) > 14 THEN << >>
       ELSE lb \o Zeros(16 - Len(lb) - Len(rb)) \o rb

ParseIP(s) ==
    LET dot == IndexOf(s, 46)
        colon == IndexOf(s, 58)
    IN IF colon # 0 /\ (dot = 0 \/ colon < dot) THEN parseIPv6(s)
       ELSE IF dot # 0
       THEN (IF parseIPv4(s) = << >> THEN << >> ELSE v4InV6Prefix \o parseIPv4(s))
       ELSE << >>


\* ------------------------------------------------------ text header decode
\* fmt.Sscanf(line, "PROXY %s %s %s %d %d\r\n", ...) on an ASCII line.  A
\* scan position p is the 1-based index of the next unread byte; a step
\* returns the new position and an error message ("" for none).

V1ProtoFamUnknown == << 85, 78, 75, 78, 79, 87, 78 >>

V1ProtoFamTCP4 == << 84, 67, 80, 52 >>

V1ProtoFamTCP6 == << 84, 67, 80, 54 >>

HeaderV1(fam, srcIP, dstIP, srcPort, dstPort) ==
    [ver |-> 1, Family |-> fam, SourceIP |-> srcIP, DestIP |-> dstIP,
     SourcePort |-> srcPort, DestPort |-> dstPort]

\* fmt's isSpace on ASCII
isSpace(c) == c \in {9, 10, 11, 12, 13, 32}

\* past the spaces other than newline that start at p
RECURSIVE skipBlanks(_, _)
skipBlanks(b, p) ==
    IF p <= Len(b) /\ isSpace(b[p]) /\ b[p] # 10 THEN skipBlanks(b, p + 1) ELSE p

\* past the bytes that are not spaces, starting at p
RECURSIVE skipWord(_, _)
skipWord(b, p) == IF p <= Len(b) /\ ~isSpace(b[p]) THEN skipWord(b, p + 1) ELSE p

\* past the bytes of "0123456789_", starting at p
RECURSIVE skipDigits(_, _)
skipDigits(b, p) ==
    IF p <= Len(b) /\ (IsDigit(b[p]) \/ b[p] = 95) THEN skipDigits(b, p + 1) ELSE p

\* ss.advance on a lone space of the format
advanceSpace(b, p) ==
    IF p > Len(b) THEN [err |-> "", p |-> p]
    ELSE IF ~isSpace(b[p]) THEN [err |-> "expected space in input to match format", p |-> p]
    ELSE IF b[p] = 10 THEN [err |-> "newline in input does not match format", p |-> p]
    ELSE [err |-> "", p |-> skipBlanks(b, p)]

\* ss.advance on the "\r\n" that ends the format
advanceNewline(b, p) ==
    LET q == skipBlanks(b, p)
    IN IF q <= Len(b) /\ b[q] # 10
       THEN [err |-> "newline in format does not match input", p |-> q]
       ELSE [err |-> "", p |-> q + 1]

\* ss.SkipSpace with nlIsSpace false, then ss.notEOF
RECURSIVE SkipSpace(_, _)
SkipSpace(b, p) ==
    IF p > Len(b) THEN [err |-> "unexpected EOF", p |-> p]
    ELSE IF b[p] = 13 /\ p < Len(b) /\ b[p + 1] = 10 THEN SkipSpace(b, p + 1)
    ELSE IF b[p] = 10 THEN [err |-> "unexpected newline", p |-> p]
    ELSE IF ~isSpace(b[p]) THEN [err |-> "", p |-> p]
    ELSE SkipSpace(b, p + 1)

\* the verb %s after its leading spaces (the scan sk of SkipSpace): the
\* next space-delimited word
convertString(b, sk) ==
    IF sk.err # "" THEN [err |-> sk.err, p |-> sk.p, val |-> << >>]
    ELSE [err |-> "", p |-> skipWord(b, sk.p), val |-> SubSeq(b, sk.p, skipWord(b, sk.p) - 1)]

scanString(b, p) == convertString(b, SkipSpace(b, p))

\* the digits of a %d: the run b[d..q-1] of "0123456789_", which
\* strconv.ParseInt(tok, 10, 64) must accept (it rejects "_").  The value
\* is computed for tokens of at most 9 digits.
scanNumber(b, sign, d, q) ==
    IF d > Len(b) THEN [err |-> "unexpected EOF", p |-> d, val |-> 0]
    ELSE IF q = d THEN [err |-> "expected integer", p |-> d, val |-> 0]
    ELSE IF \E i \in d..(q - 1) : b[i] = 95
    THEN [err |-> "invalid syntax", p |-> q, val |-> 0]
    ELSE [err |-> "", p |-> q, val |-> sign * DecVal(SubSeq(b, d, q - 1))]

\* the sign of a %d and then its digits, from position p
scanSigned(b, p) ==
    IF b[p] \in {43, 45}
    THEN scanNumber(b, IF b[p] = 45 THEN 0 - 1 ELSE 1, p + 1, skipDigits(b, p + 1))
    ELSE scanNumber(b, 1, p, skipDigits(b, p))

\* the verb %d into an int after its leading spaces (the scan sk)
convertInt(b, sk) ==
    IF sk.err # "" THEN [err |-> sk.err, p |-> sk.p, val |-> 0] ELSE scanSigned(b, sk.p)

scanInt(b, p) == convertInt(b, SkipSpace(b, p))

Scanned(n, err, fam, src, dst, sp, dp) ==
    [n |-> n, err |-> err, fam |-> fam, srcIPStr |-> src, dstIPStr |-> dst,
     srcPort |-> sp, dstPort |-> dp]

\* the scan st after a piece of format r that stores nothing
advanced(st, r) == [p |-> r.p, err |-> r.err, vals |-> st.vals]

\* the scan st after a verb r, whose value is stored unless it failed
stored(st, r) ==
    [p |-> r.p, err |-> r.err, vals |-> IF r.err = "" THEN Append(st.vals, r.val) ELSE st.vals]

\* one directive of the format "PROXY %s %s %s %d %d\r\n" after the
\* literal PROXY: directives 1, 3, 5, 7, 9 are the spaces, 2, 4, 6 the %s
\* verbs, 8 and 10 the %d verbs, 11 the "\r\n".  st is the scan so far:
\* the position, the error, and the values stored by the verbs.
scanDirective(b, k, st) ==
    IF k = 11 THEN advanced(st, advanceNewline(b, st.p))
    ELSE IF k % 2 = 1 THEN advanced(st, advanceSpace(b, st.p))
    ELSE IF k <= 6 THEN stored(st, scanString(b, st.p))
    ELSE stored(st, scanInt(b, st.p))

\* the directives from the k-th on, up to the first error
RECURSIVE scanDirectives(_, _, _)
scanDirectives(b, k, st) ==
    IF k > 11 \/ st.err # "" THEN st ELSE scanDirectives(b, k + 1, scanDirective(b, k, st))

\* the k-th value a scan stored, or the zero value of its variable
valueOr(vals, k, zero) == IF k <= Len(vals) THEN vals[k] ELSE zero

\* what Sscanf returns after the scan st: the number of values stored, the
\* error, and the variables
scanResult(st) ==
    Scanned(Len(st.vals), st.err,
            valueOr(st.vals, 1, << >>), valueOr(st.vals, 2, << >>),
            valueOr(st.vals, 3, << >>), valueOr(st.vals, 4, 0), valueOr(st.vals, 5, 0))

\* fmt.Sscanf(string(buf), "PROXY %s %s %s %d %d\r\n", ...)
Sscanf(b) ==
    IF Len(b) < 5 \/ SubSeq(b, 1, 5) # << 80, 82, 79, 88, 89 >>
    THEN Scanned(0, "input does not match format", << >>, << >>, << >>, 0, 0)
    ELSE scanResult(scanDirectives(b, 1, [p |-> 6, err |-> "", vals |-> << >>]))

\* longest line of a text header, the cap of the read loop
MaxLine == 108

\* a read loop that tests the length before it tests for '\n'
readLineCapFirst(s) ==
    LET k == IndexOf(s, 10)
    IN IF k # 0 /\ k < MaxLine THEN [kind |-> "line", n |-> k]
       ELSE IF Len(s) >= MaxLine THEN [kind |-> "long", n |-> MaxLine]
       ELSE [kind |-> "short", n |-> Len(s)]

\* the read loop of parseV1: the line up to and including '\n', at most
\* 108 bytes.  kind is "line", "long" (108 bytes without '\n') or "short"
\* (the reader failed first); n is the number of bytes read.
readLine(s) ==
    LET k == IndexOf(s, 10)
    IN IF k # 0 /\ k <= MaxLine THEN [kind |-> "line", n |-> k]
       ELSE IF Len(s) >= MaxLine THEN [kind |-> "long", n |-> MaxLine]
       ELSE [kind |-> "short", n |-> Len(s)]

\* the end of parseV1: the header of a TCP4/TCP6 line from the scan sc and
\* the two parsed addresses
headerOfIPs(buf, sc, srcIP, dstIP) ==
    IF srcIP = << >>
    THEN Returned(NoHdr, InvalidHeaderErr("invalid source address", buf), Len(buf))
    ELSE IF dstIP = << >>
    THEN Returned(NoHdr, InvalidHeaderErr("invalid destination address", buf), Len(buf))
    ELSE Returned(HeaderV1(sc.fam, srcIP, dstIP, sc.srcPort, sc.dstPort), NoErr, Len(buf))

\* a parseV1 that does not look at the error of Sscanf under TCP4 and TCP6:
\* it makes a header of the fields that were scanned
headerOfScanPartial(buf, sc) ==
    IF sc.n = 0 /\ sc.err # "" THEN Returned(NoHdr, InvalidHeaderErr(sc.err, buf), Len(buf))
    ELSE IF sc.fam = V1ProtoFamUnknown
    THEN Returned(HeaderV1(sc.fam, << >>, << >>, 0, 0), NoErr, Len(buf))
    ELSE IF sc.fam \notin {V1ProtoFamTCP4, V1ProtoFamTCP6}
    THEN Returned(NoHdr, InvalidHeaderErr("unsupported INET protocol/family", buf), Len(buf))
    ELSE headerOfIPs(buf, sc, ParseIP(sc.srcIPStr), ParseIP(sc.dstIPStr))

\* parseV1 after Sscanf: buf is the line read, sc the scan
headerOfScan(buf, sc) ==
    IF sc.n = 0 /\ sc.err # "" THEN Returned(NoHdr, InvalidHeaderErr(sc.err, buf), Len(buf))
    ELSE IF sc.fam = V1ProtoFamUnknown
    THEN Returned(HeaderV1(sc.fam, << >>, << >>, 0, 0), NoErr, Len(buf))
    ELSE IF sc.fam \notin {V1ProtoFamTCP4, V1ProtoFamTCP6}
    THEN Returned(NoHdr, InvalidHeaderErr("unsupported INET protocol/family", buf), Len(buf))
    ELSE IF sc.err # "" THEN Returned(NoHdr, InvalidHeaderErr(sc.err, buf), Len(buf))
    ELSE headerOfIPs(buf, sc, ParseIP(sc.srcIPStr), ParseIP(sc.dstIPStr))

\* parseV1 after the read loop rl, which left buf
headerOfLine(buf, rl, endErr) ==
    IF rl.kind = "short" THEN Returned(NoHdr, InvalidHeaderErr(endErr, buf), Len(buf))
    ELSE IF rl.kind = "long"
    THEN Returned(NoHdr, InvalidHeaderErr("header too long", buf), Len(buf))
    ELSE headerOfScan(buf, Sscanf(buf))

\* parseV1 of src/headerv1.go
parseV1(s, endErr) == headerOfLine(SubSeq(s, 1, readLine(s).n), readLine(s), endErr)

\* ------------------------------------------------------------------ Parse
\* a Parse without r.UnreadByte(): the byte it looked at is gone from the
\* stream, and the decoders start at the second byte
ParseNoUnread(s, endErr, bld) ==
    IF s = << >> THEN Returned(NoHdr, RawErr(endErr), 0)
    ELSE IF s[1] = 80 THEN [parseV1(Tail(s), endErr) EXCEPT !.n = @ + 1]
    ELSE IF s[1] = sigV2[1]
    THEN [(IF bld = "headerv2.go" THEN parseV2(Tail(s), endErr) ELSE parseV2_parse_go(Tail(s), endErr))
            EXCEPT !.n = @ + 1]
    ELSE Returned(NoHdr, InvalidHeaderErr("invalid signature", << >>), 1)

\* Parse of src/parse.go: peek at the first byte and dispatch.  bld names
\* the file parseV2 was compiled from.
Parse(s, endErr, bld) ==
    IF s = << >> THEN Returned(NoHdr, RawErr(endErr), 0)
    ELSE IF s[1] = 80 THEN parseV1(s, endErr)
    ELSE IF s[1] = sigV2[1]
    THEN (IF bld = "headerv2.go" THEN parseV2(s, endErr) ELSE parseV2_parse_go(s, endErr))
    ELSE Returned(NoHdr, InvalidHeaderErr("invalid signature", << >>), 0)

\* Header.Source / Header.Dest (called SrcAddr / DestAddr by Conn)
Source(h) == IF h.ver = 1 THEN TCPAddr(h.SourceIP, h.SourcePort) ELSE h.SourceAddr

Dest(h) == IF h.ver = 1 THEN TCPAddr(h.DestIP, h.DestPort) ELSE h.DestAddr


\* ================================================================ state

VARIABLES
    build,      \* "headerv2.go" or "parse.go": the file parseV2 is built from
    \* ---- SpecCodec: one codec job
    cjob,       \* the job: encode then decode a header, or decode a stream
    cpc,        \* "new", "written", "parsed"
    cwire,      \* what WriteTo left behind
    cres,       \* what Parse returned
    \* ---- SpecTLV: TLVs written one after the other, then parsed
    tlvs,       \* the TLVs to write, each given by its type and the length of its value
    twire,      \* the bytes in the buffer the TLVs are written to
    tret,       \* what each WriteTo so far returned, and the number of bytes it wrote
    tres,       \* what ParseTLVs returned
    \* ---- Spec: one Conn and the goroutines that use it
    stream,         \* what the peer sends: bytes, header length, validity, end
    rpos,           \* number of bytes consumed from c.r
    once,           \* c.once: "new", "running" (inside Do), "done"
    hdr,            \* c.hdr
    err,            \* c.err
    local,          \* c.local
    remote,         \* c.remote
    deadline,       \* c.deadline, 0 for the zero time
    nextDeadline,   \* c.nextDeadline, 0 for the zero time
    rawReadDeadline,    \* read deadline of the underlying net.Conn, 0 for none
    deferred,       \* argument of the deferred SetReadDeadline, -1 when none
    pc,             \* where each goroutine is
    op,             \* the method each goroutine is in, and its argument
    ret,            \* what the last call that returned has returned
    calls,          \* number of calls made on the Conn
    crashed,        \* an unrecovered panic ended the process
    \* history, no effect on the Conn
    parseRuns,      \* number of times Parse was run on c.r
    setOverlapped,  \* a Set*Deadline call overlapped c.parse or another such call
    phResults,      \* the (header, error) pairs ProxyHeader returned
    readLog,        \* the bytes Read returned, in order
    callerLast,     \* the deadline of the last completed Set*Deadline call
    \* ---- SpecListener: one Listener
    lrules,         \* the slice the caller hands to SetFilter
    l_filter,       \* l.filter
    l_t,            \* l.t
    lret,           \* what the last call on the Listener returned
    \* ---- SpecListenerConc: the Listener used by several goroutines
    lpc,            \* where each goroutine is
    lop,            \* the method each goroutine is in, and its argument
    sfNewFilter,    \* newFilter of each goroutine in SetFilter
    accFilter,      \* filter of each goroutine in Accept
    accT,           \* t of each goroutine in Accept
    mx,             \* l.mx: the goroutine that holds the lock, the ones that hold a read lock
    lcalls,         \* number of calls made on the Listener
    \* history, no effect on the Listener
    published,      \* the slices stored in l.filter so far
    linputs         \* the slices handed to SetFilter so far

tlvVars == << tlvs, twire, tret, tres >>

codecVars == << cjob, cpc, cwire, cres, tlvVars >>

connVars == << stream, rpos, once, hdr, err, local, remote, deadline, nextDeadline,
               rawReadDeadline, deferred, pc, op, ret, calls, crashed,
               parseRuns, setOverlapped, phResults,
               readLog, callerLast >>

lconcVars == << lpc, lop, sfNewFilter, accFilter, accT, mx, lcalls, published, linputs >>

lstVars == << lrules, l_filter, l_t, lret, lconcVars >>

Builds == {"headerv2.go", "parse.go"}

\* ------------------------------------------------------------ SpecCodec
\* The codec functions applied to bounded inputs: a header is written by
\* WriteTo and the written bytes are handed to Parse, or a raw stream is
\* handed to Parse.

\* longest trailing byte string of an encoded header
MaxTrail == 3

\* k bytes of payload or trailing data, none of them zero
Fill(k) == [i \in 1..k |-> 1 + ((i * 7) % 250)]

IPv4s == { << 192, 168, 0, 1 >>, << 192, 168, 0, 2 >> }

IPv6s == { << 32, 1, 0, 0, 0, 0, 0, 0, 0, 0, 0, 0, 0, 0, 0, 1 >>,
           v4InV6Prefix \o << 192, 168, 0, 1 >> }

Ports == {80, 65535}

UnixNames == { << 102, 111, 111 >>, << 98, 97, 114 >>, Fill(108) }

\* the endpoint pairs that match a family/protocol byte
EndpointPairs(FamProto) ==
    IF FamProto = 17 THEN {<< TCPAddr(a, p), TCPAddr(b, 90) >> : a \in IPv4s, b \in IPv4s, p \in Ports}
    ELSE IF FamProto = 18 THEN {<< UDPAddr(a, p), UDPAddr(b, 90) >> : a \in IPv4s, b \in IPv4s, p \in Ports}
    ELSE IF FamProto = 33 THEN {<< TCPAddr(a, p), TCPAddr(b, 90) >> : a \in IPv6s, b \in IPv6s, p \in Ports}
    ELSE IF FamProto = 34 THEN {<< UDPAddr(a, p), UDPAddr(b, 90) >> : a \in IPv6s, b \in IPv6s, p \in Ports}
    ELSE IF FamProto = 49 THEN {<< UnixAddr("unix", a), UnixAddr("unix", b) >> : a \in UnixNames, b \in UnixNames}
    ELSE IF FamProto = 50 THEN {<< UnixAddr("unixgram", a), UnixAddr("unixgram", b) >> : a \in UnixNames, b \in UnixNames}
    ELSE {<< NilAddr, NilAddr >>}

\* the valid headers: command local or proxy, a family/protocol pair with
\* matching endpoints, any trailing bytes
ValidHeaders ==
    UNION {{HeaderV2(cmd, fp \div 16, fp % 16, e[1], e[2], Fill(k)) :
                cmd \in {CommandLocal, CommandProxy}, e \in EndpointPairs(fp), k \in 0..MaxTrail} :
           fp \in {0, 17, 18, 33, 34, 49, 50}}

\* the 16-byte prefix of a binary header
PrefixV2(VerCmd, FamProto, rawLen) == sigV2 \o << VerCmd, FamProto >> \o PutUint16(rawLen)

\* binary prefixes that declare fewer bytes than their address block
\* holds, followed by k more bytes
ShortStreams ==
    UNION {{PrefixV2(33, fp, l) \o Fill(k) : l \in 0..(addrLen(fp) - 1), k \in {0, 1, 12, 36, 216}} :
           fp \in {17, 18, 33, 34, 49, 50}}

\* the signature with its i-th byte changed
BadSig(i) == [sigV2 EXCEPT ![i] = (@ + 1) % 256]

\* 16-byte prefixes with one or more fields out of range, followed by k
\* more bytes: the signature right or wrong in one byte, the version, the
\* command, the family and the protocol each right or wrong
BadPrefixStreams ==
    {sig \o << VerCmd, FamProto >> \o PutUint16(l) \o Fill(k) :
        sig \in {sigV2, BadSig(1), BadSig(7), BadSig(12)},
        VerCmd \in {32, 33, 34, 47, 17, 1, 50},
        FamProto \in {0, 17, 50, 64, 241, 19, 31, 67},
        l \in {0, 12}, k \in {0, 12, 20}}
    \ {sigV2 \o << VerCmd, FamProto >> \o PutUint16(l) \o Fill(k) :
            VerCmd \in {32, 33}, FamProto \in {0, 17, 50}, l \in {0, 12}, k \in {0, 12, 20}}

Job(kind, h, s) == [kind |-> kind, h |-> h, s |-> s]

NoWire == Written(<< >>, "")

NoRes == Returned(NoHdr, NoErr, 0)

\* what ParseTLVs returns; err is "" for nil
ParsedTLVs(res, e) == [tlvs |-> res, err |-> e]

NotParsed == ParsedTLVs(<< >>, "not called")

\* the TLV part of the state in the specifications that write no TLVs
TLVIdle ==
    /\ tlvs = << >>
    /\ twire = << >>
    /\ tret = << >>
    /\ tres = NotParsed

CodecIdle ==
    /\ cjob = Job("none", NoHdr, << >>)
    /\ cpc = "parsed"
    /\ cwire = NoWire
    /\ cres = NoRes
    /\ TLVIdle

\* --------------------------------------------------------- SpecListener
\* One Listener made by NewListener(nl, t).  The caller holds a slice of
\* rules and hands it to SetFilter; connections arrive from peers and are
\* accepted.

\* longest slice handed to SetFilter
MaxRules == 3

\* timeouts are 0..MaxTimeout
MaxTimeout == 2

Timeouts == 0..MaxTimeout

\* a *net.IPNet with a canonical mask: the address and Mask.Size()
IPNet(ip, ones, bits) == [IP |-> ip, ones |-> ones, bits |-> bits]

Rule(subnet, timeout) == [Subnet |-> subnet, Timeout |-> timeout]

\* 10.0.0.0/8, 10.1.0.0/16 inside it, and 192.168.0.0/16
Subnets ==
    { IPNet(<< 10, 0, 0, 0 >>, 8, 32),
      IPNet(<< 10, 1, 0, 0 >>, 16, 32),
      IPNet(<< 192, 168, 0, 0 >>, 16, 32) }

Rules == {Rule(n, d) : n \in Subnets, d \in Timeouts}

RuleLists == UNION {[1..k -> Rules] : k \in 0..MaxRules}

\* the RemoteAddr of the connections that arrive
Peers ==
    { TCPAddr(<< 10, 1, 2, 3 >>, 40000),
      TCPAddr(<< 10, 2, 0, 1 >>, 40000),
      UDPAddr(<< 192, 168, 1, 1 >>, 40000),
      TCPAddr(<< 172, 16, 0, 1 >>, 40000),
      UnixAddr("unix", << 102, 111, 111 >>) }

\* n.Subnet.String(), the address and the prefix length
SubnetString(n) == << n.IP, n.ones >>

\* the leading m bits of a byte
TopBits(b, m) == b \div (2 ^ (8 - m))

\* n.Subnet.Contains(ip): the addresses have one length and agree on the
\* bits of the mask
Contains(n, ip) ==
    /\ Len(ip) = Len(n.IP)
    /\ \A i \in 1..Len(ip) :
            LET m == Max2(0, Min2(8, n.ones - 8 * (i - 1)))
            IN TopBits(ip[i], m) = TopBits(n.IP[i], m)

\* rules.Swap
Swap(r, i, j) == [r EXCEPT ![i] = r[j], ![j] = r[i]]

\* a Less that puts the shorter prefix first
LessShortestFirst(r, i, j) ==
    IF r[i].Subnet.ones # r[j].Subnet.ones THEN r[i].Subnet.ones < r[j].Subnet.ones
    ELSE IF r[i].Subnet.bits # r[j].Subnet.bits THEN r[i].Subnet.bits > r[j].Subnet.bits
    ELSE IF r[i].Timeout # r[j].Timeout
    THEN (IF r[j].Timeout = 0 THEN TRUE ELSE r[i].Timeout < r[j].Timeout)
    ELSE r[i].Timeout < r[j].Timeout

\* rules.Less
Less(r, i, j) ==
    IF r[i].Subnet.ones # r[j].Subnet.ones THEN r[i].Subnet.ones > r[j].Subnet.ones
    ELSE IF r[i].Subnet.bits # r[j].Subnet.bits THEN r[i].Subnet.bits > r[j].Subnet.bits
    ELSE IF r[i].Timeout # r[j].Timeout
    THEN (IF r[j].Timeout = 0 THEN TRUE ELSE r[i].Timeout < r[j].Timeout)
    ELSE r[i].Timeout < r[j].Timeout

\* the inner loop of the insertion sort: for j > a && Less(j, j-1), swap
RECURSIVE sink(_, _)
sink(r, j) == IF j > 1 /\ Less(r, j, j - 1) THEN sink(Swap(r, j, j - 1), j - 1) ELSE r

\* sort.Sort on a slice this short is an insertion sort
RECURSIVE insertionSort(_, _)
insertionSort(r, i) == IF i > Len(r) THEN r ELSE insertionSort(sink(r, i), i + 1)

\* the dedup loop of SetFilter: k is the element read, w is len(nf); append
\* writes behind newFilter[0] into the array of newFilter, whose length
\* stays
RECURSIVE dedup(_, _, _, _)
dedup(newFilter, last, k, w) ==
    IF k > Len(newFilter) THEN newFilter
    ELSE IF SubnetString(last.Subnet) = SubnetString(newFilter[k].Subnet)
    THEN dedup(newFilter, last, k + 1, w)
    ELSE dedup([newFilter EXCEPT ![w + 2] = newFilter[k]], newFilter[k], k + 1, w + 1)

\* the slice SetFilter stores in l.filter
newFilterOf(rs) ==
    LET sorted == insertionSort(rs, 2)
    IN IF Len(sorted) > 0 THEN dedup(sorted, sorted[1], 2, 0) ELSE sorted

\* what Accept returns: an error, the connection as it is, or a Conn made
\* by NewConn with a deadline timeout from now or with the zero time
LRet(kind, peer, wrapped, timed, timeout, rs) ==
    [kind |-> kind, peer |-> peer, wrapped |-> wrapped, timed |-> timed,
     timeout |-> timeout, rules |-> rs]

NoLRet == LRet("none", NilAddr, FALSE, FALSE, 0, << >>)

\* the index of the first rule of f that contains ip, 0 when there is none
FirstMatch(f, ip) ==
    IF \E i \in 1..Len(f) : Contains(f[i].Subnet, ip)
    THEN CHOOSE i \in 1..Len(f) :
            /\ Contains(f[i].Subnet, ip)
            /\ \A k \in 1..(i - 1) : ~Contains(f[k].Subnet, ip)
    ELSE 0

\* the connection as it came from the underlying listener
Unwrapped(peer) == LRet("Accept", peer, FALSE, FALSE, 0, << >>)

\* NewConn(c, time.Now().Add(timeout))
WrappedUntil(peer, timeout) == LRet("Accept", peer, TRUE, TRUE, timeout, << >>)

\* NewConn(c, time.Time{})
WrappedForever(peer) == LRet("Accept", peer, TRUE, FALSE, 0, << >>)

\* an Accept that asks every peer outside the rules for a header
acceptConnUnmatchedWrapped(filter, t, peer) ==
    IF Len(filter) = 0 THEN WrappedUntil(peer, t)
    ELSE IF peer.kind \notin {"tcp", "udp"} THEN Unwrapped(peer)
    ELSE IF FirstMatch(filter, peer.IP) = 0 THEN WrappedUntil(peer, t)
    ELSE IF filter[FirstMatch(filter, peer.IP)].Timeout = 0 THEN WrappedForever(peer)
    ELSE WrappedUntil(peer, filter[FirstMatch(filter, peer.IP)].Timeout)

\* an Accept that sets no deadline when there are no rules
acceptConnNoDefault(filter, t, peer) ==
    IF Len(filter) = 0 THEN WrappedForever(peer)
    ELSE IF peer.kind \notin {"tcp", "udp"} THEN Unwrapped(peer)
    ELSE IF FirstMatch(filter, peer.IP) = 0 THEN Unwrapped(peer)
    ELSE IF filter[FirstMatch(filter, peer.IP)].Timeout = 0 THEN WrappedForever(peer)
    ELSE WrappedUntil(peer, filter[FirstMatch(filter, peer.IP)].Timeout)

\* an Accept whose type switch has no default case: a peer without an IP
\* goes through the rules with a nil IP, matches none, and is asked for a
\* header like a peer under no rules
acceptConnNoTypeSwitch(filter, t, peer) ==
    IF Len(filter) = 0 THEN WrappedUntil(peer, t)
    ELSE IF peer.kind \notin {"tcp", "udp"} THEN WrappedUntil(peer, t)
    ELSE IF FirstMatch(filter, peer.IP) = 0 THEN Unwrapped(peer)
    ELSE IF filter[FirstMatch(filter, peer.IP)].Timeout = 0 THEN WrappedForever(peer)
    ELSE WrappedUntil(peer, filter[FirstMatch(filter, peer.IP)].Timeout)

\* an Accept without the test for a zero timeout: the deadline of a rule
\* with timeout zero is the time of the Accept
acceptConnZeroIsDeadline(filter, t, peer) ==
    IF Len(filter) = 0 THEN WrappedUntil(peer, t)
    ELSE IF peer.kind \notin {"tcp", "udp"} THEN Unwrapped(peer)
    ELSE IF FirstMatch(filter, peer.IP) = 0 THEN Unwrapped(peer)
    ELSE WrappedUntil(peer, filter[FirstMatch(filter, peer.IP)].Timeout)

\* Accept after l.Listener.Accept returned a connection from peer and the
\* fields of l were read as filter and t
acceptConn(filter, t, peer) ==
    IF Len(filter) = 0 THEN WrappedUntil(peer, t)
    ELSE IF peer.kind \notin {"tcp", "udp"} THEN Unwrapped(peer)
    ELSE IF FirstMatch(filter, peer.IP) = 0 THEN Unwrapped(peer)
    ELSE IF filter[FirstMatch(filter, peer.IP)].Timeout = 0 THEN WrappedForever(peer)
    ELSE WrappedUntil(peer, filter[FirstMatch(filter, peer.IP)].Timeout)

\* the goroutines that use the Listener together
LGoroutines == {1, 2}

\* no goroutine is inside a method of the Listener
LConcIdle ==
    /\ lpc = [g \in LGoroutines |-> "idle"]
    /\ lop = [g \in LGoroutines |-> [name |-> "none", arg |-> << >>]]
    /\ sfNewFilter = [g \in LGoroutines |-> << >>]
    /\ accFilter = [g \in LGoroutines |-> << >>]
    /\ accT = [g \in LGoroutines |-> 0]
    /\ mx = [w |-> 0, r |-> {}]
    /\ lcalls = 0
    /\ published = {<< >>}
    /\ linputs = {}

\* NewListener(nl, d)
NewListener(d) ==
    /\ l_filter = << >>
    /\ l_t = d
    /\ lret = NoLRet

\* the Listener part of the state in the specifications that have no Listener
ListenerIdle ==
    /\ lrules = << >>
    /\ NewListener(0)
    /\ LConcIdle

\* ----------------------------------------------------------------- Spec
\* One Conn made by NewConn(c, deadline) and used by goroutines that call
\* its methods in any interleaving.  The peer's bytes are fixed when the
\* connection is made; after them the stream is closed ("eof") or the peer
\* stays silent ("stall"), and then a read blocks until a read deadline
\* fires.

Goroutines == {1, 2}

\* deadlines are instants 1..MaxDeadline, 0 is the zero time.Time
MaxDeadline == 2

\* number of payload bytes behind a header
MaxPayload == 2

\* number of calls made on one Conn
MaxCalls == 2

\* largest len(p) handed to Read
MaxReadBuf == 300

Deadlines == 0..MaxDeadline

ReadSizes == {1, MaxReadBuf}

\* the addresses of the underlying connection
RawLocalAddr == TCPAddr(<< 10, 0, 0, 1 >>, 8080)

RawRemoteAddr == TCPAddr(<< 10, 0, 0, 9 >>, 40000)

\* what the peer sends: a header that announces the endpoints src and dst
\* (NilAddr when it announces none), then payload
Stream(header, payload, valid, end, src, dst) ==
    [bytes |-> header \o payload, hlen |-> Len(header), valid |-> valid, end |-> end,
     src |-> src, dst |-> dst]

TextTCP4 == << 80, 82, 79, 88, 89, 32, 84, 67, 80, 52, 32, 49, 57, 50, 46, 49, 54, 56, 46, 48, 46, 49, 32, 49, 57, 50, 46, 49, 54, 56, 46, 48, 46, 50, 32, 49, 50, 51, 52, 32, 53, 54, 55, 56, 13, 10 >>

TextUnknown == << 80, 82, 79, 88, 89, 32, 85, 78, 75, 78, 79, 87, 78, 13, 10 >>

\* a binary header: proxy command, TCP over IPv4, k trailing bytes
BinTCP4(k) ==
    PrefixV2(33, 17, 12 + k) \o << 192, 168, 0, 1, 192, 168, 0, 2, 0, 80, 0, 90 >> \o Fill(k)

\* a binary header: local command, no address block, k trailing bytes
BinLocal(k) == PrefixV2(32, 0, k) \o Fill(k)

\* the endpoints TextTCP4 announces, as net.ParseIP returns them
TextTCP4Source == TCPAddr(v4InV6Prefix \o << 192, 168, 0, 1 >>, 1234)

TextTCP4Dest == TCPAddr(v4InV6Prefix \o << 192, 168, 0, 2 >>, 5678)

\* valid headers, each followed by payload
ValidStreams ==
    { Stream(TextTCP4, Fill(MaxPayload), TRUE, "eof", TextTCP4Source, TextTCP4Dest),
      Stream(TextTCP4, Fill(MaxPayload), TRUE, "stall", TextTCP4Source, TextTCP4Dest),
      Stream(TextUnknown, Fill(MaxPayload), TRUE, "eof", NilAddr, NilAddr),
      Stream(BinTCP4(0), Fill(MaxPayload), TRUE, "eof",
             TCPAddr(<< 192, 168, 0, 1 >>, 80), TCPAddr(<< 192, 168, 0, 2 >>, 90)),
      Stream(BinLocal(220), Fill(MaxPayload), TRUE, "eof", NilAddr, NilAddr) }

\* streams that do not start with a valid header
InvalidStreams ==
    { Stream(<< >>, << 71, 69, 84, 32, 47, 13, 10 >>, FALSE, "eof", NilAddr, NilAddr),
      Stream(<< >>, SubSeq(TextTCP4, 1, 14), FALSE, "eof", NilAddr, NilAddr),
      Stream(<< >>, SubSeq(TextTCP4, 1, 14), FALSE, "stall", NilAddr, NilAddr),
      Stream(<< >>, PrefixV2(33, 18, 0), FALSE, "eof", NilAddr, NilAddr) }

ConnStreams == ValidStreams \cup InvalidStreams

Op(name, arg) == [name |-> name, arg |-> arg]

NoOp == Op("none", 0)

Ret(name, h, e, addr, data) == [name |-> name, hdr |-> h, err |-> e, addr |-> addr, data |-> data]

NoRet == Ret("none", NoHdr, NoErr, NilAddr, << >>)

\* the calls a goroutine can make
Calls ==
    {Op(n, 0) : n \in {"ProxyHeader", "LocalAddr", "RemoteAddr"}}
    \cup {Op("Read", k) : k \in ReadSizes}
    \cup {Op(n, t) : n \in {"SetDeadline", "SetReadDeadline"}, t \in Deadlines}

\* NewConn(c, d) on a fresh connection that carries stream st
NewConn(st, d) ==
    /\ stream = st
    /\ rpos = 0
    /\ once = "new"
    /\ hdr = NoHdr
    /\ err = NoErr
    /\ local = NilAddr
    /\ remote = NilAddr
    /\ deadline = d
    /\ nextDeadline = 0
    /\ rawReadDeadline = 0
    /\ deferred = -1
    /\ pc = [g \in Goroutines |-> "idle"]
    /\ op = [g \in Goroutines |-> NoOp]
    /\ ret = NoRet
    /\ calls = 0
    /\ crashed = FALSE
    /\ parseRuns = 0
    /\ setOverlapped = FALSE
    /\ phResults = {}
    /\ readLog = << >>
    /\ callerLast = 0

\* the Conn part of the state in the specifications that have no Conn
ConnIdle ==
    /\ NewConn(Stream(<< >>, << >>, FALSE, "eof", NilAddr, NilAddr), 0)

Init ==
    /\ build \in Builds
    /\ \E st \in ConnStreams, d \in Deadlines : NewConn(st, d)
    /\ CodecIdle
    /\ ListenerIdle

\* the bytes of the stream that c.r has not handed out yet
Unread == SubSeq(stream.bytes, rpos + 1, Len(stream.bytes))

\* the error of a read that finds no more bytes
EndErr == IF stream.end = "eof" THEN "EOF" ELSE "i/o timeout"

\* c.parse is between its first and its last statement
InParse == \E g \in Goroutines : pc[g] \in {"parse79", "parse82", "parse83", "parse86", "parse87"}

historyVars == << parseRuns, setOverlapped, phResults, readLog, callerLast >>

\* a Conn whose every method starts with c.once.Do(c.parse), the
\* Set*Deadline methods included
CallEager(g, o) ==
    /\ ~crashed /\ pc[g] = "idle"
    /\ calls < MaxCalls
    /\ calls' = calls + 1
    /\ op' = [op EXCEPT ![g] = o]
    /\ pc' = [pc EXCEPT ![g] = "once"]
    /\ setOverlapped' = setOverlapped
    /\ UNCHANGED << build, stream, rpos, once, hdr, err, local, remote, deadline, nextDeadline,
                    rawReadDeadline, deferred, ret, crashed,
                    parseRuns, phResults, readLog, callerLast, codecVars, lstVars >>

\* a goroutine calls a method of the Conn
Call(g, o) ==
    /\ ~crashed /\ pc[g] = "idle"
    /\ calls < MaxCalls
    /\ calls' = calls + 1
    /\ op' = [op EXCEPT ![g] = o]
    /\ pc' = [pc EXCEPT ![g] = IF o.name \in {"SetDeadline", "SetReadDeadline"} THEN "set97" ELSE "once"]
    /\ setOverlapped' =
           (setOverlapped \/ (/\ o.name \in {"SetDeadline", "SetReadDeadline"}
                              /\ (InParse \/ \E h \in Goroutines : pc[h] \in {"set97", "set98"})))
    /\ UNCHANGED << build, stream, rpos, once, hdr, err, local, remote, deadline, nextDeadline,
                    rawReadDeadline, deferred, ret, crashed,
                    parseRuns, phResults, readLog, callerLast, codecVars, lstVars >>

\* a Do that tests a flag without holding the lock: a caller that arrives
\* while c.parse runs starts it again
OnceDoUnlocked(g) ==
    /\ ~crashed /\ pc[g] = "once"
    /\ IF once # "done"
       THEN once' = "running" /\ pc' = [pc EXCEPT ![g] = "parse79"]
       ELSE once' = once /\ pc' = [pc EXCEPT ![g] = "ret"]
    /\ setOverlapped' =
           (setOverlapped \/ (once = "new" /\ \E h \in Goroutines : pc[h] \in {"set97", "set98"}))
    /\ UNCHANGED << build, stream, rpos, hdr, err, local, remote, deadline, nextDeadline,
                    rawReadDeadline, deferred, op, ret, calls, crashed,
                    parseRuns, phResults, readLog, callerLast, codecVars, lstVars >>

\* c.once.Do(c.parse): the first caller runs c.parse, a caller that arrives
\* while it runs waits for it, a later caller goes on at once
OnceDo(g) ==
    /\ ~crashed /\ pc[g] = "once"
    /\ once # "running"
    /\ IF once = "new"
       THEN once' = "running" /\ pc' = [pc EXCEPT ![g] = "parse79"]
       ELSE once' = once /\ pc' = [pc EXCEPT ![g] = "ret"]
    /\ setOverlapped' =
           (setOverlapped \/ (once = "new" /\ \E h \in Goroutines : pc[h] \in {"set97", "set98"}))
    /\ UNCHANGED << build, stream, rpos, hdr, err, local, remote, deadline, nextDeadline,
                    rawReadDeadline, deferred, op, ret, calls, crashed,
                    parseRuns, phResults, readLog, callerLast, codecVars, lstVars >>

\* the condition without its second operand: the construction-time
\* deadline is installed whenever there is one
Parse79NoCompare(g) ==
    /\ ~crashed /\ pc[g] = "parse79"
    /\ pc' = [pc EXCEPT ![g] = IF deadline # 0 THEN "parse82" ELSE "parse86"]
    /\ UNCHANGED << build, stream, rpos, once, hdr, err, local, remote, deadline, nextDeadline,
                    rawReadDeadline, deferred, op, ret, calls, crashed,
                    historyVars, codecVars, lstVars >>

\* conn.go:79, the condition of the if statement
Parse79(g) ==
    /\ ~crashed /\ pc[g] = "parse79"
    /\ pc' = [pc EXCEPT ![g] =
                IF deadline # 0 /\ (nextDeadline = 0 \/ nextDeadline > deadline)
                THEN "parse82" ELSE "parse86"]
    /\ UNCHANGED << build, stream, rpos, once, hdr, err, local, remote, deadline, nextDeadline,
                    rawReadDeadline, deferred, op, ret, calls, crashed,
                    historyVars, codecVars, lstVars >>

\* conn.go:82, c.Conn.SetReadDeadline(c.deadline)
Parse82(g) ==
    /\ ~crashed /\ pc[g] = "parse82"
    /\ rawReadDeadline' = deadline
    /\ pc' = [pc EXCEPT ![g] = "parse83"]
    /\ UNCHANGED << build, stream, rpos, once, hdr, err, local, remote, deadline, nextDeadline,
                    deferred, op, ret, calls, crashed, historyVars, codecVars, lstVars >>

\* conn.go:83, defer c.Conn.SetReadDeadline(c.nextDeadline): the argument
\* is evaluated by the defer statement, the call is made when parse returns
Parse83(g) ==
    /\ ~crashed /\ pc[g] = "parse83"
    /\ deferred' = nextDeadline
    /\ pc' = [pc EXCEPT ![g] = "parse86"]
    /\ UNCHANGED << build, stream, rpos, once, hdr, err, local, remote, deadline, nextDeadline,
                    rawReadDeadline, op, ret, calls, crashed, historyVars, codecVars, lstVars >>

\* conn.go:86, c.hdr, c.err = Parse(c.r).  A read that runs out of bytes on
\* a silent stream waits for a read deadline; a panic of Parse runs the
\* deferred calls (parse's and sync.Once's) and ends the process.
Parse86(g) ==
    /\ ~crashed /\ pc[g] = "parse86"
    /\ LET r == Parse(Unread, EndErr, build)
       IN /\ ~(stream.end = "stall" /\ r.err.msg = "i/o timeout" /\ rawReadDeadline = 0)
          /\ rpos' = rpos + r.n
          /\ IF r.panic
             THEN /\ crashed' = TRUE
                  /\ once' = "done"
                  /\ rawReadDeadline' = IF deferred # -1 THEN deferred ELSE rawReadDeadline
                  /\ deferred' = -1
                  /\ pc' = [pc EXCEPT ![g] = "panic"]
                  /\ UNCHANGED << hdr, err >>
             ELSE /\ hdr' = r.hdr
                  /\ err' = r.err
                  /\ pc' = [pc EXCEPT ![g] = "parse87"]
                  /\ UNCHANGED << crashed, once, rawReadDeadline, deferred >>
    /\ parseRuns' = parseRuns + 1
    /\ UNCHANGED << build, stream, local, remote, deadline, nextDeadline,
                    op, ret, calls, setOverlapped, phResults, readLog, callerLast, codecVars, lstVars >>

\* conn.go:87-93 and the return of c.parse: the endpoints are stored when
\* there is no error, the deferred call is made, and Do marks the Once done
Parse87(g) ==
    /\ ~crashed /\ pc[g] = "parse87"
    /\ local' = IF err = NoErr THEN Dest(hdr) ELSE local
    /\ remote' = IF err = NoErr THEN Source(hdr) ELSE remote
    /\ rawReadDeadline' = IF deferred # -1 THEN deferred ELSE rawReadDeadline
    /\ deferred' = -1
    /\ once' = "done"
    /\ pc' = [pc EXCEPT ![g] = "ret"]
    /\ UNCHANGED << build, stream, rpos, hdr, err, deadline, nextDeadline,
                    op, ret, calls, crashed, historyVars, codecVars, lstVars >>

\* ProxyHeader, after once.Do: return c.hdr, c.err
ProxyHeader(g) ==
    /\ ~crashed /\ pc[g] = "ret" /\ op[g].name = "ProxyHeader"
    /\ ret' = Ret("ProxyHeader", hdr, err, NilAddr, << >>)
    /\ phResults' = phResults \cup {<< hdr, err >>}
    /\ pc' = [pc EXCEPT ![g] = "idle"]
    /\ op' = [op EXCEPT ![g] = NoOp]
    /\ UNCHANGED << build, stream, rpos, once, hdr, err, local, remote, deadline, nextDeadline,
                    rawReadDeadline, deferred, calls, crashed,
                    parseRuns, setOverlapped, readLog, callerLast, codecVars, lstVars >>

\* RemoteAddr, after once.Do
RemoteAddr(g) ==
    /\ ~crashed /\ pc[g] = "ret" /\ op[g].name = "RemoteAddr"
    /\ ret' = Ret("RemoteAddr", NoHdr, NoErr,
                    IF err # NoErr \/ remote = NilAddr THEN RawRemoteAddr ELSE remote, << >>)
    /\ pc' = [pc EXCEPT ![g] = "idle"]
    /\ op' = [op EXCEPT ![g] = NoOp]
    /\ UNCHANGED << build, stream, rpos, once, hdr, err, local, remote, deadline, nextDeadline,
                    rawReadDeadline, deferred, calls, crashed,
                    historyVars, codecVars, lstVars >>

\* LocalAddr, after once.Do
LocalAddr(g) ==
    /\ ~crashed /\ pc[g] = "ret" /\ op[g].name = "LocalAddr"
    /\ ret' = Ret("LocalAddr", NoHdr, NoErr,
                    IF err # NoErr \/ local = NilAddr THEN RawLocalAddr ELSE local, << >>)
    /\ pc' = [pc EXCEPT ![g] = "idle"]
    /\ op' = [op EXCEPT ![g] = NoOp]
    /\ UNCHANGED << build, stream, rpos, once, hdr, err, local, remote, deadline, nextDeadline,
                    rawReadDeadline, deferred, calls, crashed,
                    historyVars, codecVars, lstVars >>

\* a Read that does not look at c.err
ReadIgnoringErr(g) ==
    /\ ~crashed /\ pc[g] = "ret" /\ op[g].name = "Read"
    /\ IF Unread # << >>
       THEN LET n == Min2(op[g].arg, Len(Unread))
            IN /\ ret' = Ret("Read", NoHdr, NoErr, NilAddr, SubSeq(Unread, 1, n))
               /\ rpos' = rpos + n
               /\ readLog' = readLog \o SubSeq(Unread, 1, n)
       ELSE /\ stream.end = "stall" => rawReadDeadline # 0
            /\ ret' = Ret("Read", NoHdr, RawErr(EndErr), NilAddr, << >>)
            /\ UNCHANGED << rpos, readLog >>
    /\ pc' = [pc EXCEPT ![g] = "idle"]
    /\ op' = [op EXCEPT ![g] = NoOp]
    /\ UNCHANGED << build, stream, once, hdr, err, local, remote, deadline, nextDeadline,
                    rawReadDeadline, deferred, calls, crashed,
                    parseRuns, setOverlapped, phResults, callerLast, codecVars, lstVars >>

\* a Read that keeps the error of a failed read in c.err
ReadStoringErr(g) ==
    /\ ~crashed /\ pc[g] = "ret" /\ op[g].name = "Read"
    /\ IF err # NoErr
       THEN /\ ret' = Ret("Read", NoHdr, err, NilAddr, << >>)
            /\ UNCHANGED << rpos, readLog, err >>
       ELSE IF Unread # << >>
       THEN LET n == Min2(op[g].arg, Len(Unread))
            IN /\ ret' = Ret("Read", NoHdr, NoErr, NilAddr, SubSeq(Unread, 1, n))
               /\ rpos' = rpos + n
               /\ readLog' = readLog \o SubSeq(Unread, 1, n)
               /\ err' = err
       ELSE /\ stream.end = "stall" => rawReadDeadline # 0
            /\ ret' = Ret("Read", NoHdr, RawErr(EndErr), NilAddr, << >>)
            /\ err' = RawErr(EndErr)
            /\ UNCHANGED << rpos, readLog >>
    /\ pc' = [pc EXCEPT ![g] = "idle"]
    /\ op' = [op EXCEPT ![g] = NoOp]
    /\ UNCHANGED << build, stream, once, hdr, local, remote, deadline, nextDeadline,
                    rawReadDeadline, deferred, calls, crashed,
                    parseRuns, setOverlapped, phResults, callerLast, codecVars, lstVars >>

\* Read, after once.Do: the stored error, or c.r.Read(p) with len(p) = op.arg
Read(g) ==
    /\ ~crashed /\ pc[g] = "ret" /\ op[g].name = "Read"
    /\ IF err # NoErr
       THEN /\ ret' = Ret("Read", NoHdr, err, NilAddr, << >>)
            /\ UNCHANGED << rpos, readLog >>
       ELSE IF Unread # << >>
       THEN LET n == Min2(op[g].arg, Len(Unread))
            IN /\ ret' = Ret("Read", NoHdr, NoErr, NilAddr, SubSeq(Unread, 1, n))
               /\ rpos' = rpos + n
               /\ readLog' = readLog \o SubSeq(Unread, 1, n)
       ELSE /\ stream.end = "stall" => rawReadDeadline # 0
            /\ ret' = Ret("Read", NoHdr, RawErr(EndErr), NilAddr, << >>)
            /\ UNCHANGED << rpos, readLog >>
    /\ pc' = [pc EXCEPT ![g] = "idle"]
    /\ op' = [op EXCEPT ![g] = NoOp]
    /\ UNCHANGED << build, stream, once, hdr, err, local, remote, deadline, nextDeadline,
                    rawReadDeadline, deferred, calls, crashed,
                    parseRuns, setOverlapped, phResults, callerLast, codecVars, lstVars >>

\* conn.go:97 and conn.go:103, c.nextDeadline = t
Set97(g) ==
    /\ ~crashed /\ pc[g] = "set97"
    /\ nextDeadline' = op[g].arg
    /\ pc' = [pc EXCEPT ![g] = "set98"]
    /\ UNCHANGED << build, stream, rpos, once, hdr, err, local, remote, deadline,
                    rawReadDeadline, deferred, op, ret, calls, crashed,
                    historyVars, codecVars, lstVars >>

\* conn.go:98, return c.Conn.SetDeadline(t)
SetDeadline(g) ==
    /\ ~crashed /\ pc[g] = "set98" /\ op[g].name = "SetDeadline"
    /\ rawReadDeadline' = op[g].arg
    /\ callerLast' = op[g].arg
    /\ setOverlapped' = (setOverlapped \/ InParse)
    /\ ret' = Ret("SetDeadline", NoHdr, NoErr, NilAddr, << >>)
    /\ pc' = [pc EXCEPT ![g] = "idle"]
    /\ op' = [op EXCEPT ![g] = NoOp]
    /\ UNCHANGED << build, stream, rpos, once, hdr, err, local, remote, deadline, nextDeadline,
                    deferred, calls, crashed, parseRuns, phResults,
                    readLog, codecVars, lstVars >>

\* conn.go:104, return c.Conn.SetReadDeadline(t)
SetReadDeadline(g) ==
    /\ ~crashed /\ pc[g] = "set98" /\ op[g].name = "SetReadDeadline"
    /\ rawReadDeadline' = op[g].arg
    /\ callerLast' = op[g].arg
    /\ setOverlapped' = (setOverlapped \/ InParse)
    /\ ret' = Ret("SetReadDeadline", NoHdr, NoErr, NilAddr, << >>)
    /\ pc' = [pc EXCEPT ![g] = "idle"]
    /\ op' = [op EXCEPT ![g] = NoOp]
    /\ UNCHANGED << build, stream, rpos, once, hdr, err, local, remote, deadline, nextDeadline,
                    deferred, calls, crashed, parseRuns, phResults, readLog, codecVars, lstVars >>

Next ==
    \E g \in Goroutines :
        \/ \E o \in Calls : Call(g, o)
        \/ OnceDo(g)
        \/ Parse79(g)
        \/ Parse82(g)
        \/ Parse83(g)
        \/ Parse86(g)
        \/ Parse87(g)
        \/ ProxyHeader(g)
        \/ RemoteAddr(g)
        \/ LocalAddr(g)
        \/ Read(g)
        \/ Set97(g)
        \/ SetDeadline(g)
        \/ SetReadDeadline(g)

vars == << build, codecVars, connVars, lstVars >>

Spec == Init /\ [][Next]_vars

\* ------------------------------------------------- SpecCodec, the actions

\* the endpoints a header may be given
Endpoints ==
    { NilAddr,
      TCPAddr(<< 192, 168, 0, 1 >>, 80),
      TCPAddr(v4InV6Prefix \o << 192, 168, 0, 1 >>, 80),
      UDPAddr(<< 192, 168, 0, 2 >>, 90),
      UnixAddr("unix", << 102, 111, 111 >>),
      UnixAddr("unixgram", << 98, 97, 114 >>),
      UnixAddr("unix", Fill(109)),
      UnixAddr("unixgram", Fill(109)) }

\* the endpoint a is one that the family/protocol byte declares: a TCP or
\* UDP address with an IP of 4 or 16 bytes, or a Unix address of the net
\* with a path of at most 108 bytes
EndpointMatches(FamProto, a) ==
    IF FamProto \in {17, 18, 33, 34}
    THEN /\ a.kind = (IF FamProto \in {17, 33} THEN "tcp" ELSE "udp")
         /\ Len(a.IP) = (IF FamProto \in {17, 18} THEN 4 ELSE 16)
    ELSE /\ a.kind = "unix"
         /\ a.Net = (IF FamProto = 49 THEN "unix" ELSE "unixgram")
         /\ Len(a.Name) <= 108

\* headers with an address block of which the source, the destination or
\* both do not match the declared family/protocol
MismatchedHeaders ==
    UNION {{HeaderV2(CommandProxy, fp \div 16, fp % 16, a, b, << >>) :
                a \in {x \in Endpoints : ~EndpointMatches(fp, x)}, b \in Endpoints}
           \cup {HeaderV2(CommandProxy, fp \div 16, fp % 16, a, b, << >>) :
                a \in Endpoints, b \in {x \in Endpoints : ~EndpointMatches(fp, x)}} :
           fp \in {17, 18, 33, 34, 49, 50}}

\* "PROXY TCP4 192.168.0.1 nowhere 1234 5678\r\n"
TextBadDest ==
    << 80, 82, 79, 88, 89, 32, 84, 67, 80, 52, 32, 49, 57, 50, 46, 49, 54, 56, 46, 48, 46, 49, 32,
       110, 111, 119, 104, 101, 114, 101, 32, 49, 50, 51, 52, 32, 53, 54, 55, 56, 13, 10 >>

\* streams on which Parse fails: the empty one, one that starts like
\* neither header, text lines that are cut short, too long or malformed,
\* binary prefixes that are cut short or out of range, and binary headers
\* whose stream ends before the declared length; some with bytes after the
\* failure
FailingStreams ==
    { << >>,
      << 71, 69, 84, 32, 47, 13, 10 >>,
      << 80 >>,
      << 80, 82, 79, 88, 89, 32, 84, 67, 80, 52, 32, 49, 57, 50 >>,
      << 80 >> \o Fill(120),
      << 80, 82, 79, 88, 89, 32, 72, 84, 84, 80, 13, 10 >> \o Fill(4),
      TextBadDest \o Fill(4),
      << 13 >>,
      SubSeq(sigV2, 1, 12),
      PrefixV2(33, 17, 12),
      PrefixV2(33, 17, 12) \o Fill(5),
      PrefixV2(33, 0, 300) \o Fill(250),
      PrefixV2(17, 17, 12) \o Fill(12),
      PrefixV2(33, 67, 0) \o Fill(3),
      BadSig(12) \o << 33, 17, 0, 12 >> \o Fill(12) }

\* "PROXY"
TextPROXY == << 80, 82, 79, 88, 89 >>

\* k spaces
Spaces(k) == [i \in 1..k |-> 32]

\* k letters, none of them a space or a newline
Letters(k) == [i \in 1..k |-> 65]

\* "PROXY UNKNOWN", spaces and "\r\n": a line whose '\n' is its k-th byte
PaddedUnknown(k) == TextPROXY \o << 32 >> \o V1ProtoFamUnknown \o Spaces(k - 15) \o << 13, 10 >>

\* streams that start like a text header: lines that end before, at and
\* behind the cap, alone or with bytes behind them (a second '\n' among
\* them), and streams without '\n' that end before, at and behind the cap
LineStreams ==
    {PaddedUnknown(k) \o rest :
        k \in {15, MaxLine - 1, MaxLine, MaxLine + 1},
        rest \in {<< >>, << 71, 69, 84, 10, 71 >>}}
    \cup {TextTCP4 \o rest : rest \in {<< >>, << 71, 69, 84, 10, 71 >>}}
    \cup {<< 80 >> \o Letters(k) : k \in {0, 50, MaxLine - 2, MaxLine - 1, MaxLine, MaxLine + 40}}
    \cup {<< 80 >> \o Letters(MaxLine - 1) \o << 10, 71 >>}

\* a token of a text line and what it stands for: ok says whether it is a
\* well-formed literal, val is its value
Lit(lit, ok, val) == [lit |-> lit, ok |-> ok, val |-> val]

\* the place of an address the line does not have
NoIP == Lit(<< >>, FALSE, << >>)

\* the place of a port the line does not have
NoPort == Lit(<< >>, FALSE, 0)

\* "UNKNOWN", "TCP4", "TCP6", "UDP4", "TCP"
FamLits ==
    { V1ProtoFamUnknown, V1ProtoFamTCP4, V1ProtoFamTCP6, << 85, 68, 80, 52 >>, << 84, 67, 80 >> }

\* "192.168.0.1", "::1", "nowhere"
IPLits ==
    { Lit(<< 49, 57, 50, 46, 49, 54, 56, 46, 48, 46, 49 >>, TRUE, v4InV6Prefix \o << 192, 168, 0, 1 >>),
      Lit(<< 58, 58, 49 >>, TRUE, Zeros(15) \o << 1 >>),
      Lit(<< 110, 111, 119, 104, 101, 114, 101 >>, FALSE, << >>) }

\* "80", "65535", "8x"
PortLits ==
    { Lit(<< 56, 48 >>, TRUE, 80),
      Lit(<< 54, 53, 53, 51, 53 >>, TRUE, 65535),
      Lit(<< 56, 120 >>, FALSE, 0) }

\* a text line given by its tokens: the family and the nf - 1 fields that
\* follow it
TextLine(fam, nf, src, dst, sp, dp) ==
    [fam |-> fam, nf |-> nf, src |-> src, dst |-> dst, sp |-> sp, dp |-> dp]

\* the lines with a family token and none to four of the fields behind it
TextLines ==
    {TextLine(f, 1, NoIP, NoIP, NoPort, NoPort) : f \in FamLits}
    \cup {TextLine(f, 2, a, NoIP, NoPort, NoPort) : f \in FamLits, a \in IPLits}
    \cup {TextLine(f, 3, a, b, NoPort, NoPort) : f \in FamLits, a \in IPLits, b \in IPLits}
    \cup {TextLine(f, 4, a, b, p, NoPort) : f \in FamLits, a \in IPLits, b \in IPLits, p \in PortLits}
    \cup {TextLine(f, 5, a, b, p, q) :
                f \in FamLits, a \in IPLits, b \in IPLits, p \in PortLits, q \in PortLits}

\* the bytes of a text line: "PROXY", the tokens with a space before each,
\* and "\r\n"
TextBytes(d) ==
    TextPROXY \o << 32 >> \o d.fam
        \o (IF d.nf >= 2 THEN << 32 >> \o d.src.lit ELSE << >>)
        \o (IF d.nf >= 3 THEN << 32 >> \o d.dst.lit ELSE << >>)
        \o (IF d.nf >= 4 THEN << 32 >> \o d.sp.lit ELSE << >>)
        \o (IF d.nf >= 5 THEN << 32 >> \o d.dp.lit ELSE << >>)
        \o << 13, 10 >>

\* the family/protocol bytes the prefix checks let through
FamProtos == {fam * 16 + proto : fam \in AddrFamilyUnspec..AddrFamilyUnix, proto \in ProtoUnspec..ProtoDGram}

\* the address block of the endpoint pair e as the address-block table of
\* the protocol lays it out: the two IPs and the two ports, the two paths
\* filled up with NUL to 108 bytes each, or nothing
BlockOf(FamProto, e) ==
    IF FamProto \in {17, 18, 33, 34}
    THEN e[1].IP \o e[2].IP \o PutUint16(e[1].Port) \o PutUint16(e[2].Port)
    ELSE IF FamProto \in {49, 50} THEN unixBlock(e[1].Name, e[2].Name)
    ELSE << >>

\* a well-formed binary header: the prefix with the declared length, the
\* address block of h's endpoints and h's trailing bytes
BinaryBytes(h) ==
    PrefixV2(32 + h.Command, h.Family * 16 + h.Protocol,
             Len(BlockOf(h.Family * 16 + h.Protocol, << h.SourceAddr, h.DestAddr >>)) + Len(h.Trailing))
        \o BlockOf(h.Family * 16 + h.Protocol, << h.SourceAddr, h.DestAddr >>) \o h.Trailing

\* the headers sent in binary form: every family/protocol byte, each
\* endpoint pair that goes with it, and some trailing bytes, few or more
\* than the decoder's buffer holds
BinaryHeaders ==
    UNION {{HeaderV2(cmd, fp \div 16, fp % 16, e[1], e[2], Fill(k)) :
                cmd \in {CommandLocal, CommandProxy}, e \in EndpointPairs(fp),
                k \in (0..MaxTrail) \cup {230}} :
           fp \in FamProtos}

\* streams for the dispatch of Parse: a first byte that is 'P', 0x0D or
\* another one, followed by nothing, by what follows the first byte of a
\* text header or by what follows the first byte of a binary header
DispatchStreams ==
    {<< b >> \o rest :
        b \in {80, 13, 0, 10, 71, 112, 255},
        rest \in {<< >>, Tail(TextTCP4), Tail(TextUnknown) \o Fill(3), Tail(BinTCP4(0)) \o Fill(3)}}

\* the largest value of rawV2.Len, a uint16
MaxLenField == 65535

\* headers with trailing bytes up to and beyond what the length field can
\* count: TCP over IPv4 (WriteTo computes 28 plus the trailing bytes) and
\* local without endpoints (232 plus the trailing bytes)
LongHeaders ==
    {HeaderV2(CommandProxy, AddrFamilyInet, ProtoStream,
              TCPAddr(<< 192, 168, 0, 1 >>, 80), TCPAddr(<< 192, 168, 0, 2 >>, 90), Fill(k)) :
        k \in {MaxLenField - 28, MaxLenField - 27, MaxLenField - 20}}
    \cup {HeaderV2(CommandLocal, AddrFamilyUnspec, ProtoUnspec, NilAddr, NilAddr, Fill(k)) :
            k \in {MaxLenField - 232, MaxLenField - 231}}

InitCodec ==
    /\ ConnIdle
    /\ ListenerIdle
    /\ build \in Builds
    /\ cjob \in {Job("roundtrip", h, << >>) : h \in ValidHeaders}
                \cup {Job("decode", NoHdr, s) : s \in ShortStreams}
                \cup {Job("prefix", NoHdr, s) : s \in BadPrefixStreams}
                \cup {Job("mismatch", h, << >>) : h \in MismatchedHeaders}
                \cup {Job("failing", NoHdr, s) : s \in FailingStreams}
                \cup {Job("line", NoHdr, s) : s \in LineStreams}
                \cup {Job("text", d, TextBytes(d)) : d \in TextLines}
                \cup {Job("dispatch", NoHdr, s) : s \in DispatchStreams}
                \cup {Job("long", h, << >>) : h \in LongHeaders}
                \cup {Job("binary", h, BinaryBytes(h) \o rest) :
                            h \in BinaryHeaders, rest \in {<< >>, Fill(230)}}
    /\ cpc = "new"
    /\ cwire = NoWire
    /\ cres = NoRes
    /\ TLVIdle

\* h.WriteTo(&buf)
CodecWrite ==
    /\ cpc = "new" /\ cjob.kind \in {"roundtrip", "mismatch", "long"}
    /\ cwire' = WriteTo(cjob.h)
    /\ cpc' = "written"
    /\ UNCHANGED << build, cjob, cres, tlvVars, connVars, lstVars >>

\* Parse(bufio.NewReader(&buf)) of the bytes WriteTo wrote
CodecParseWritten ==
    /\ cpc = "written" /\ ~cwire.panic /\ cwire.err = ""
    /\ cres' = Parse(cwire.bytes, "EOF", build)
    /\ cpc' = "parsed"
    /\ UNCHANGED << build, cjob, cwire, tlvVars, connVars, lstVars >>

\* Parse(bufio.NewReader(bytes.NewReader(data)))
CodecParseStream ==
    /\ cpc = "new" /\ cjob.kind \in {"decode", "failing", "line", "text", "binary", "dispatch"}
    /\ cres' = Parse(cjob.s, "EOF", build)
    /\ cpc' = "parsed"
    /\ UNCHANGED << build, cjob, cwire, tlvVars, connVars, lstVars >>

\* parseV2(bufio.NewReader(bytes.NewReader(data))), the binary decoder alone
CodecParseV2 ==
    /\ cpc = "new" /\ cjob.kind = "prefix"
    /\ cres' = IF build = "headerv2.go" THEN parseV2(cjob.s, "EOF") ELSE parseV2_parse_go(cjob.s, "EOF")
    /\ cpc' = "parsed"
    /\ UNCHANGED << build, cjob, cwire, tlvVars, connVars, lstVars >>

NextCodec == CodecWrite \/ CodecParseWritten \/ CodecParseStream \/ CodecParseV2

SpecCodec == InitCodec /\ [][NextCodec]_vars

\* ---------------------------------------------------------------- SpecTLV
\* TLVs are written one after the other by TLV.WriteTo to one buffer, and
\* the buffer is handed to ParseTLVs.

\* number of TLVs written to one buffer
MaxTLVs == 2

\* longest value a TLV can carry, 0xffff
MaxTLVValue == 65535

PP2TypeALPN == 1

PP2TypeNOOP == 4

TLV(type, value) == [Type |-> type, Value |-> value]

\* the lengths of the values: short ones, the longest that fits the length
\* field, and one byte more
TLVLens == {0, 1, 2, MaxTLVValue, MaxTLVValue + 1}

TLVInputs == {[Type |-> ty, Len |-> k] : ty \in {PP2TypeALPN, PP2TypeNOOP}, k \in TLVLens}

\* the i-th TLV to write: a value of the given length
tlvAt(i) == TLV(tlvs[i].Type, Fill(tlvs[i].Len))

\* the loop of ParseTLVs: b is what is left of the bytes, res the TLVs so far
RECURSIVE parseTLVsFrom(_, _)
parseTLVsFrom(b, res) ==
    IF Len(b) = 0 THEN ParsedTLVs(res, "")
    ELSE IF Len(b) < 3 THEN ParsedTLVs(<< >>, "unexpected EOF")
    ELSE IF Len(b) < 3 + Uint16(b[2], b[3]) THEN ParsedTLVs(<< >>, "unexpected EOF")
    ELSE parseTLVsFrom(SubSeq(b, 4 + Uint16(b[2], b[3]), Len(b)),
                       Append(res, TLV(b[1], SubSeq(b, 4, 3 + Uint16(b[2], b[3])))))

\* a loop that returns the TLVs parsed so far along with the error
RECURSIVE parseTLVsFromPartial(_, _)
parseTLVsFromPartial(b, res) ==
    IF Len(b) = 0 THEN ParsedTLVs(res, "")
    ELSE IF Len(b) < 3 THEN ParsedTLVs(res, "unexpected EOF")
    ELSE IF Len(b) < 3 + Uint16(b[2], b[3]) THEN ParsedTLVs(res, "unexpected EOF")
    ELSE parseTLVsFromPartial(SubSeq(b, 4 + Uint16(b[2], b[3]), Len(b)),
                              Append(res, TLV(b[1], SubSeq(b, 4, 3 + Uint16(b[2], b[3])))))

ParseTLVsPartial(b) == parseTLVsFromPartial(b, << >>)

ParseTLVs(b) == parseTLVsFrom(b, << >>)

\* what TLV.WriteTo returns, and the bytes it wrote
TLVWritten(n, e, bytes) == [n |-> n, err |-> e, bytes |-> bytes]

\* a WriteTo without the test of the length: the length field is the low
\* 16 bits of the length
TLVWriteToUnchecked(t) ==
    TLVWritten(3 + Len(t.Value), "", << t.Type >> \o PutUint16(Len(t.Value)) \o t.Value)

\* TLV.WriteTo to a writer that never fails (a bytes.Buffer)
TLVWriteTo(t) ==
    IF Len(t.Value) > MaxTLVValue THEN TLVWritten(0, "TLV value too long", << >>)
    ELSE TLVWritten(3 + Len(t.Value), "", << t.Type >> \o PutUint16(Len(t.Value)) \o t.Value)

InitTLV ==
    /\ build = "headerv2.go"
    /\ ConnIdle
    /\ ListenerIdle
    /\ cjob = Job("none", NoHdr, << >>) /\ cpc = "parsed" /\ cwire = NoWire /\ cres = NoRes
    /\ tlvs \in UNION {[1..k -> TLVInputs] : k \in 0..MaxTLVs}
    /\ twire = << >>
    /\ tret = << >>
    /\ tres = NotParsed

\* tlvs[i].WriteTo(&buf) for the next TLV
TLVWrite ==
    /\ Len(tret) < Len(tlvs)
    /\ twire' = twire \o TLVWriteTo(tlvAt(Len(tret) + 1)).bytes
    /\ tret' = Append(tret, [n |-> TLVWriteTo(tlvAt(Len(tret) + 1)).n,
                             err |-> TLVWriteTo(tlvAt(Len(tret) + 1)).err,
                             wrote |-> Len(TLVWriteTo(tlvAt(Len(tret) + 1)).bytes)])
    /\ UNCHANGED << build, cjob, cpc, cwire, cres, tlvs, tres, connVars, lstVars >>

\* ParseTLVs(buf.Bytes()) after the last WriteTo
TLVParse ==
    /\ Len(tret) = Len(tlvs) /\ tres = NotParsed
    /\ tres' = ParseTLVs(twire)
    /\ UNCHANGED << build, cjob, cpc, cwire, cres, tlvs, twire, tret, connVars, lstVars >>

\* most bytes cut off the end of the buffer
MaxCut == 3

\* ParseTLVs(buf.Bytes()[:buf.Len()-k]) after the last WriteTo: the bytes
\* written without their last k
TLVParseCut(k) ==
    /\ Len(tret) = Len(tlvs) /\ tres = NotParsed
    /\ k <= Len(twire)
    /\ twire' = SubSeq(twire, 1, Len(twire) - k)
    /\ tres' = ParseTLVs(SubSeq(twire, 1, Len(twire) - k))
    /\ UNCHANGED << build, cjob, cpc, cwire, cres, tlvs, tret, connVars, lstVars >>

NextTLV == TLVWrite \/ TLVParse \/ \E k \in 1..MaxCut : TLVParseCut(k)

SpecTLV == InitTLV /\ [][NextTLV]_vars

\* ---------------------------------------------- SpecListener, the actions

InitListener ==
    /\ build = "headerv2.go"
    /\ ConnIdle
    /\ CodecIdle
    /\ lrules \in RuleLists
    /\ \E d \in Timeouts : NewListener(d)
    /\ LConcIdle

\* l.SetFilter(lrules)
SetFilter ==
    /\ l_filter' = newFilterOf(lrules)
    /\ lret' = LRet("SetFilter", NilAddr, FALSE, FALSE, 0, << >>)
    /\ UNCHANGED << build, codecVars, connVars, lconcVars, lrules, l_t >>

\* l.SetDefaultTimeout(d)
SetDefaultTimeout(d) ==
    /\ l_t' = d
    /\ lret' = LRet("SetDefaultTimeout", NilAddr, FALSE, FALSE, 0, << >>)
    /\ UNCHANGED << build, codecVars, connVars, lconcVars, lrules, l_filter >>

\* l.Filter()
Filter ==
    /\ lret' = LRet("Filter", NilAddr, FALSE, FALSE, 0, l_filter)
    /\ UNCHANGED << build, codecVars, connVars, lconcVars, lrules, l_filter, l_t >>

\* l.Accept() when the underlying Accept fails
AcceptError ==
    /\ lret' = LRet("AcceptError", NilAddr, FALSE, FALSE, 0, << >>)
    /\ UNCHANGED << build, codecVars, connVars, lconcVars, lrules, l_filter, l_t >>

\* l.Accept() when the underlying Accept returns a connection from peer
Accept(peer) ==
    /\ lret' = acceptConn(l_filter, l_t, peer)
    /\ UNCHANGED << build, codecVars, connVars, lconcVars, lrules, l_filter, l_t >>

NextListener ==
    \/ SetFilter
    \/ \E d \in Timeouts : SetDefaultTimeout(d)
    \/ Filter
    \/ AcceptError
    \/ \E peer \in Peers : Accept(peer)

SpecListener == InitListener /\ [][NextListener]_vars

\* ------------------------------------------ SpecListenerConc, the actions
\* One Listener used by several goroutines at once: calls of SetFilter,
\* SetDefaultTimeout and Accept run statement by statement in any
\* interleaving that l.mx allows.

\* calls made on the Listener
MaxLCalls == 3

Net8 == IPNet(<< 10, 0, 0, 0 >>, 8, 32)

Net16 == IPNet(<< 10, 1, 0, 0 >>, 16, 32)

\* the slices handed to SetFilter: empty, one rule, two rules out of order,
\* and three rules of which two are for one subnet
ConcFilters ==
    { << >>,
      << Rule(Net8, 1) >>,
      << Rule(Net8, 1), Rule(Net16, 2) >>,
      << Rule(Net8, 2), Rule(Net16, 1), Rule(Net16, 2) >> }

\* the RemoteAddr of the connections that arrive
ConcPeers == { TCPAddr(<< 10, 1, 2, 3 >>, 40000), TCPAddr(<< 172, 16, 0, 1 >>, 40000) }

LOp(name, arg) == [name |-> name, arg |-> arg]

NoLOp == LOp("none", << >>)

LCalls ==
    {LOp("SetFilter", f) : f \in ConcFilters}
        \cup {LOp("SetDefaultTimeout", d) : d \in Timeouts}
        \cup {LOp("Accept", peer) : peer \in ConcPeers}

InitListenerConc ==
    /\ build = "headerv2.go"
    /\ ConnIdle
    /\ CodecIdle
    /\ lrules = << >>
    /\ \E d \in Timeouts : NewListener(d)
    /\ LConcIdle

\* a goroutine calls a method of the Listener
LCall(g, o) ==
    /\ lpc[g] = "idle"
    /\ lcalls < MaxLCalls
    /\ lcalls' = lcalls + 1
    /\ lop' = [lop EXCEPT ![g] = o]
    /\ lpc' = [lpc EXCEPT ![g] = CASE o.name = "SetFilter" -> "sf125"
                                   [] o.name = "SetDefaultTimeout" -> "sd98"
                                   [] OTHER -> "acc59"]
    /\ linputs' = IF o.name = "SetFilter" THEN linputs \cup {o.arg} ELSE linputs
    /\ UNCHANGED << build, codecVars, connVars, lrules, l_filter, l_t, lret,
                    sfNewFilter, accFilter, accT, mx, published >>

\* listener.go:125-126, newFilter := make([]Rule, len(filter)); copy(newFilter, filter)
SetFilter125(g) ==
    /\ lpc[g] = "sf125"
    /\ sfNewFilter' = [sfNewFilter EXCEPT ![g] = lop[g].arg]
    /\ lpc' = [lpc EXCEPT ![g] = "sf127"]
    /\ UNCHANGED << build, codecVars, connVars, lrules, l_filter, l_t, lret,
                    lop, accFilter, accT, mx, lcalls, published, linputs >>

\* listener.go:127, sort.Sort(rules(newFilter))
SetFilter127(g) ==
    /\ lpc[g] = "sf127"
    /\ sfNewFilter' = [sfNewFilter EXCEPT ![g] = insertionSort(@, 2)]
    /\ lpc' = [lpc EXCEPT ![g] = "sf128"]
    /\ UNCHANGED << build, codecVars, connVars, lrules, l_filter, l_t, lret,
                    lop, accFilter, accT, mx, lcalls, published, linputs >>

\* listener.go:128-140, the dedup loop
SetFilter128(g) ==
    /\ lpc[g] = "sf128"
    /\ sfNewFilter' = [sfNewFilter EXCEPT ![g] = IF Len(@) > 0 THEN dedup(@, @[1], 2, 0) ELSE @]
    /\ lpc' = [lpc EXCEPT ![g] = "sf142"]
    /\ UNCHANGED << build, codecVars, connVars, lrules, l_filter, l_t, lret,
                    lop, accFilter, accT, mx, lcalls, published, linputs >>

\* listener.go:142 and listener.go:98, l.mx.Lock(): waits until no goroutine
\* holds the lock or a read lock
Lock(g) ==
    /\ lpc[g] \in {"sf142", "sd98"}
    /\ mx.w = 0 /\ mx.r = {}
    /\ mx' = [mx EXCEPT !.w = g]
    /\ lpc' = [lpc EXCEPT ![g] = IF lpc[g] = "sf142" THEN "sf143" ELSE "sd99"]
    /\ UNCHANGED << build, codecVars, connVars, lrules, l_filter, l_t, lret,
                    lop, sfNewFilter, accFilter, accT, lcalls, published, linputs >>

\* listener.go:143, l.filter = newFilter
SetFilter143(g) ==
    /\ lpc[g] = "sf143"
    /\ l_filter' = sfNewFilter[g]
    /\ published' = published \cup {sfNewFilter[g]}
    /\ lpc' = [lpc EXCEPT ![g] = "sf144"]
    /\ UNCHANGED << build, codecVars, connVars, lrules, l_t, lret,
                    lop, sfNewFilter, accFilter, accT, mx, lcalls, linputs >>

\* listener.go:99, l.t = t
SetDefaultTimeout99(g) ==
    /\ lpc[g] = "sd99"
    /\ l_t' = lop[g].arg
    /\ lpc' = [lpc EXCEPT ![g] = "sd100"]
    /\ UNCHANGED << build, codecVars, connVars, lrules, l_filter, lret,
                    lop, sfNewFilter, accFilter, accT, mx, lcalls, published, linputs >>

\* listener.go:144 and listener.go:100, l.mx.Unlock(), and the return
Unlock(g) ==
    /\ lpc[g] \in {"sf144", "sd100"}
    /\ mx' = [mx EXCEPT !.w = 0]
    /\ lret' = LRet(lop[g].name, NilAddr, FALSE, FALSE, 0, << >>)
    /\ lpc' = [lpc EXCEPT ![g] = "idle"]
    /\ lop' = [lop EXCEPT ![g] = NoLOp]
    /\ UNCHANGED << build, codecVars, connVars, lrules, l_filter, l_t,
                    sfNewFilter, accFilter, accT, lcalls, published, linputs >>

\* listener.go:59-62, c, err := l.Listener.Accept(): a connection from the
\* peer, or an error that Accept returns
Accept59(g) ==
    /\ lpc[g] = "acc59"
    /\ \E ok \in BOOLEAN :
        IF ok
        THEN /\ lpc' = [lpc EXCEPT ![g] = "acc64"]
             /\ UNCHANGED << lop, lret >>
        ELSE /\ lpc' = [lpc EXCEPT ![g] = "idle"]
             /\ lop' = [lop EXCEPT ![g] = NoLOp]
             /\ lret' = LRet("AcceptError", NilAddr, FALSE, FALSE, 0, << >>)
    /\ UNCHANGED << build, codecVars, connVars, lrules, l_filter, l_t,
                    sfNewFilter, accFilter, accT, mx, lcalls, published, linputs >>

\* listener.go:64, l.mx.RLock(): waits until no goroutine holds the lock
RLock(g) ==
    /\ lpc[g] = "acc64"
    /\ mx.w = 0
    /\ mx' = [mx EXCEPT !.r = @ \cup {g}]
    /\ lpc' = [lpc EXCEPT ![g] = "acc65"]
    /\ UNCHANGED << build, codecVars, connVars, lrules, l_filter, l_t, lret,
                    lop, sfNewFilter, accFilter, accT, lcalls, published, linputs >>

\* listener.go:65, filter := l.filter
Accept65(g) ==
    /\ lpc[g] = "acc65"
    /\ accFilter' = [accFilter EXCEPT ![g] = l_filter]
    /\ lpc' = [lpc EXCEPT ![g] = "acc66"]
    /\ UNCHANGED << build, codecVars, connVars, lrules, l_filter, l_t, lret,
                    lop, sfNewFilter, accT, mx, lcalls, published, linputs >>

\* listener.go:66, t := l.t
Accept66(g) ==
    /\ lpc[g] = "acc66"
    /\ accT' = [accT EXCEPT ![g] = l_t]
    /\ lpc' = [lpc EXCEPT ![g] = "acc67"]
    /\ UNCHANGED << build, codecVars, connVars, lrules, l_filter, l_t, lret,
                    lop, sfNewFilter, accFilter, mx, lcalls, published, linputs >>

\* listener.go:67, l.mx.RUnlock()
RUnlock(g) ==
    /\ lpc[g] = "acc67"
    /\ mx' = [mx EXCEPT !.r = @ \ {g}]
    /\ lpc' = [lpc EXCEPT ![g] = "acc69"]
    /\ UNCHANGED << build, codecVars, connVars, lrules, l_filter, l_t, lret,
                    lop, sfNewFilter, accFilter, accT, lcalls, published, linputs >>

\* listener.go:69-91, the decision on filter and t, and the return
Accept69(g) ==
    /\ lpc[g] = "acc69"
    /\ lret' = [acceptConn(accFilter[g], accT[g], lop[g].arg) EXCEPT !.rules = accFilter[g]]
    /\ lpc' = [lpc EXCEPT ![g] = "idle"]
    /\ lop' = [lop EXCEPT ![g] = NoLOp]
    /\ UNCHANGED << build, codecVars, connVars, lrules, l_filter, l_t,
                    sfNewFilter, accFilter, accT, mx, lcalls, published, linputs >>

NextListenerConc ==
    \E g \in LGoroutines :
        \/ \E o \in LCalls : LCall(g, o)
        \/ SetFilter125(g)
        \/ SetFilter127(g)
        \/ SetFilter128(g)
        \/ Lock(g)
        \/ SetFilter143(g)
        \/ SetDefaultTimeout99(g)
        \/ Unlock(g)
        \/ Accept59(g)
        \/ RLock(g)
        \/ Accept65(g)
        \/ Accept66(g)
        \/ RUnlock(g)
        \/ Accept69(g)

SpecListenerConc == InitListenerConc /\ [][NextListenerConc]_vars

\* ---------------------------------------------------------------- C1
\* C1: under any interleaving of ProxyHeader, LocalAddr, RemoteAddr and
\* Read calls on one Conn, Parse runs on the stream at most once, and all
\* ProxyHeader calls that return have returned the same (header, error).
C1_ParseOnce == parseRuns <= 1 /\ Cardinality(phResults) <= 1

\* two goroutines were inside once.Do together, Parse ran, and both go on
\* to return from ProxyHeader
C1_Witness ==
    /\ parseRuns = 1
    /\ \A g \in Goroutines : pc[g] = "ret" /\ op[g].name = "ProxyHeader"

\* ---------------------------------------------------------------- C2
\* C2: on a stream that starts with a valid header, a parse that succeeds
\* has consumed exactly the header's bytes, and the bytes Read returns
\* afterwards are the payload from its first byte on: the bytes consumed
\* before the first Read are the header's, what Read returned follows them.
C2_ExactConsumption ==
    (stream.valid /\ once = "done" /\ ~crashed /\ err = NoErr) =>
        /\ rpos - Len(readLog) = stream.hlen
        /\ readLog = SubSeq(stream.bytes, stream.hlen + 1, stream.hlen + Len(readLog))

\* ---------------------------------------------------------------- C3
\* C3: binary round trip.  For every valid HeaderV2 H, Parse of the bytes
\* H.WriteTo wrote succeeds and returns a header with H's command, family,
\* protocol, source endpoint and destination endpoint.
C3_RoundTrip ==
    (cjob.kind = "roundtrip" /\ cpc = "parsed") =>
        /\ ~cres.panic
        /\ cres.err = NoErr
        /\ cres.hdr.ver = 2
        /\ cres.hdr.Command = cjob.h.Command
        /\ cres.hdr.Family = cjob.h.Family
        /\ cres.hdr.Protocol = cjob.h.Protocol
        /\ cres.hdr.SourceAddr = cjob.h.SourceAddr
        /\ cres.hdr.DestAddr = cjob.h.DestAddr

\* ---------------------------------------------------------------- C4
\* C4: a binary prefix with an address block (0x11, 0x12, 0x21, 0x22, 0x31,
\* 0x32) that declares fewer bytes than the block size makes Parse return
\* an error: never a header, never a panic, whatever bytes follow.
C4_ShortBlockRejected ==
    (cjob.kind = "decode" /\ cpc = "parsed") =>
        (~cres.panic /\ cres.err # NoErr /\ cres.hdr = NoHdr)

\* ---------------------------------------------------------------- C5
\* C5: after a successful parse LocalAddr returns the destination the
\* header announces and RemoteAddr the source it announces; when the
\* header announces none (text UNKNOWN, binary without address block) they
\* return the addresses of the underlying connection.
C5_Endpoints ==
    (once = "done" /\ ~crashed /\ err = NoErr) =>
        /\ (ret.name = "LocalAddr") =>
                ret.addr = IF stream.dst = NilAddr THEN RawLocalAddr ELSE stream.dst
        /\ (ret.name = "RemoteAddr") =>
                ret.addr = IF stream.src = NilAddr THEN RawRemoteAddr ELSE stream.src

\* ---------------------------------------------------------------- C6
\* C6: once the parse has failed, the stored error is the one Parse
\* returned and stays, nothing more is read from the stream, Read returns
\* no bytes and the stored error, ProxyHeader returns the stored error, and
\* LocalAddr and RemoteAddr return the underlying connection's addresses.
C6_FailedForGood ==
    (once = "done" /\ ~crashed /\ err # NoErr) =>
        LET r == Parse(stream.bytes, EndErr, build)
        IN /\ err = r.err
           /\ rpos = r.n
           /\ readLog = << >>
           /\ (ret.name = "Read") => (ret.err = err /\ ret.data = << >>)
           /\ (ret.name = "ProxyHeader") => (ret.err = err)
           /\ (ret.name = "LocalAddr") => (ret.addr = RawLocalAddr)
           /\ (ret.name = "RemoteAddr") => (ret.addr = RawRemoteAddr)

\* a second call, a Read, has returned after the parse failed
C6_Witness ==
    /\ once = "done" /\ err # NoErr /\ calls = MaxCalls
    /\ ret.name = "Read" /\ ret.err = err
    /\ \A g \in Goroutines : pc[g] = "idle"

\* ---------------------------------------------------------------- C7
\* the earlier of two deadlines, counting only the ones that are set
Earlier(a, b) == IF a = 0 THEN b ELSE IF b = 0 THEN a ELSE Min2(a, b)

\* C7: when the Set*Deadline calls were made one after the other and before
\* the parse began, the read deadline in force on the underlying connection
\* while Parse runs is the earlier of the deadline given to NewConn and the
\* deadline the caller set last, counting only the ones that are set; none
\* when neither is set.
C7_ParseDeadline ==
    \A g \in Goroutines :
        (pc[g] = "parse86" /\ ~setOverlapped) => rawReadDeadline = Earlier(deadline, callerLast)

\* Parse is about to run under the caller's deadline, the sooner of the two
C7_Witness ==
    \E g \in Goroutines :
        /\ pc[g] = "parse86" /\ ~setOverlapped
        /\ deadline = 2 /\ callerLast = 1 /\ rawReadDeadline = 1

\* ---------------------------------------------------------------- C8
\* C8: once the parse has completed and no Set*Deadline call is in
\* progress, the read deadline of the underlying connection is the one of
\* the last Set*Deadline call (none if there was no such call), also when
\* such a call was made while the parse was in progress.
C8_CallerDeadlineReinstated ==
    (once = "done" /\ ~crashed /\ \A g \in Goroutines : pc[g] \notin {"set97", "set98"}) =>
        rawReadDeadline = callerLast

\* ---------------------------------------------------------------- C9
\* the rules of the caller's slice that contain the peer of the last Accept
Matching == {i \in 1..Len(lrules) : Contains(lrules[i].Subnet, lret.peer.IP)}

\* those of them with the longest prefix
LongestMatching ==
    {i \in Matching : \A k \in Matching : lrules[k].Subnet.ones <= lrules[i].Subnet.ones}

\* the last call was an Accept of a connection from an IP peer, made under
\* the filter SetFilter built from the caller's slice, in which some rule
\* contains the peer
AcceptedUnderRules ==
    /\ lret.kind = "Accept" /\ lret.peer.kind \in {"tcp", "udp"}
    /\ Len(l_filter) > 0
    /\ Matching # {}

\* Accept applied rule's timeout: a Conn without deadline for timeout 0,
\* a Conn with that timeout otherwise
Applied(timeout) ==
    /\ lret.wrapped
    /\ lret.timed = (timeout # 0)
    /\ lret.timeout = timeout

\* C9: whatever the order of the rules in the slice given to SetFilter,
\* Accept applies to a peer the timeout of a rule whose prefix is the
\* longest among the rules that contain the peer.
C9_LongestPrefix ==
    AcceptedUnderRules => \E i \in LongestMatching : Applied(lrules[i].Timeout)

\* 10.0.0.0/8 was given before 10.1.0.0/16, and a peer in both got the
\* timeout of the /16 rule
C9_Witness ==
    /\ AcceptedUnderRules
    /\ Len(lrules) = 2
    /\ lrules[1].Subnet.ones = 8 /\ lrules[1].Timeout = 1
    /\ lrules[2].Subnet.ones = 16 /\ lrules[2].Timeout = 2
    /\ Matching = {1, 2}
    /\ Applied(2)

\* ---------------------------------------------------------------- C10
\* the smallest element of a non-empty set of numbers
MinOf(S) == CHOOSE x \in S : \A y \in S : x <= y

\* C10: when the rules that contain the peer with the longest prefix are
\* rules for one subnet, Accept applies the smallest non-zero timeout among
\* them, and a zero timeout only when all of them have a zero timeout.
C10_SmallestNonZero ==
    (AcceptedUnderRules
        /\ \A i, k \in LongestMatching : lrules[i].Subnet = lrules[k].Subnet) =>
        LET nonZero == {lrules[i].Timeout : i \in LongestMatching} \ {0}
        IN Applied(IF nonZero = {} THEN 0 ELSE MinOf(nonZero))

\* ---------------------------------------------------------------- C11
\* C11: the rule table Filter returns holds no two rules with the identical
\* subnet, whatever slice SetFilter was given.
C11_NoDuplicateSubnets ==
    (lret.kind = "Filter") =>
        \A i, k \in 1..Len(lret.rules) :
            (i # k) => SubnetString(lret.rules[i].Subnet) # SubnetString(lret.rules[k].Subnet)

\* ---------------------------------------------------------------- C12
\* the last call was an Accept of a connection from an IP peer that no rule
\* of the non-empty table contains
AcceptedOutsideRules ==
    /\ lret.kind = "Accept" /\ lret.peer.kind \in {"tcp", "udp"}
    /\ Len(l_filter) > 0
    /\ \A i \in 1..Len(l_filter) : ~Contains(l_filter[i].Subnet, lret.peer.IP)

\* C12: with a non-empty rule table, a connection whose peer IP no rule
\* contains is returned by Accept as it came from the underlying listener:
\* no Conn is made, so nothing reads a header from it.
C12_UnmatchedUnwrapped == AcceptedOutsideRules => ~lret.wrapped

\* 172.16.0.1 connected while the table held rules, none for its address
C12_Witness ==
    /\ AcceptedOutsideRules
    /\ lret.peer.IP = << 172, 16, 0, 1 >>
    /\ Len(l_filter) = MaxRules
    /\ ~lret.wrapped

\* ---------------------------------------------------------------- C13
\* C13: with a nil or empty rule table, Accept returns a Conn whose header
\* deadline is the default timeout of the listener (given to NewListener
\* or to the last SetDefaultTimeout) from the time of the Accept, whatever
\* the kind of the peer.
C13_DefaultTimeout ==
    (lret.kind = "Accept" /\ Len(l_filter) = 0) =>
        (lret.wrapped /\ lret.timed /\ lret.timeout = l_t)

\* a connection from a Unix peer was accepted with no rules and got the
\* default timeout
C13_Witness ==
    /\ lret.kind = "Accept" /\ Len(l_filter) = 0
    /\ lret.peer.kind = "unix"
    /\ lret.wrapped /\ lret.timed /\ lret.timeout = MaxTimeout /\ l_t = MaxTimeout

\* ---------------------------------------------------------------- C14
\* the last call was an Accept of a connection whose peer address is
\* neither a TCP nor a UDP address
AcceptedNonIP == lret.kind = "Accept" /\ lret.peer.kind \notin {"tcp", "udp"}

\* C14 as stated: a connection from a peer without an IP is returned
\* unwrapped for every rule table, the empty one included.
C14_NonIPUnwrapped == AcceptedNonIP => ~lret.wrapped

\* C14 for the tables that hold a rule: a connection from a peer without an
\* IP is returned unwrapped when the rule table is not empty.
C14_NonIPUnwrappedUnderRules == (AcceptedNonIP /\ Len(l_filter) > 0) => ~lret.wrapped

\* a Unix peer connected while the table held rules and was not wrapped
C14_Witness == AcceptedNonIP /\ Len(l_filter) > 0 /\ lret.peer.kind = "unix" /\ ~lret.wrapped

\* ---------------------------------------------------------------- C15
\* the sorted form of a slice of rules
SortedForm(f) == insertionSort(f, 2)

\* a sorted slice without the rules whose subnet is the one of the rule
\* before them
MergedForm(f) ==
    LET keep == {i \in 1..Len(f) :
                    i = 1 \/ SubnetString(f[i].Subnet) # SubnetString(f[i - 1].Subnet)}
    IN [k \in 1..Cardinality(keep) |->
            f[CHOOSE i \in keep : Cardinality({j \in keep : j <= i}) = k]]

\* the tables a finished update may have left: the one of NewListener, and
\* for each slice given to SetFilter its sorted form, with or without the
\* duplicate subnets
CompleteTables ==
    {<< >>} \cup {SortedForm(f) : f \in linputs} \cup {MergedForm(SortedForm(f)) : f \in linputs}

\* C15: an Accept that runs while SetFilter and SetDefaultTimeout calls run
\* decides on the table of before an update or on the sorted table of a
\* slice given to SetFilter, and when all calls have returned the table is
\* the sorted form of one of the slices given to SetFilter (or still the
\* empty table of NewListener).
C15_CompleteTables ==
    /\ \A g \in LGoroutines :
            (lpc[g] \in {"acc66", "acc67", "acc69"}) => accFilter[g] \in CompleteTables
    /\ (\A g \in LGoroutines : lpc[g] = "idle") => l_filter \in CompleteTables

\* the part of C15 on publication: an Accept decides on a slice that a
\* SetFilter call stored whole (or on the empty table of NewListener), and
\* every slice stored is what SetFilter builds from the slice it was given
PublishedWhole ==
    /\ \A g \in LGoroutines :
            (lpc[g] \in {"acc66", "acc67", "acc69"}) => accFilter[g] \in published
    /\ l_filter \in published
    /\ published \subseteq ({<< >>} \cup {newFilterOf(f) : f \in linputs})
    /\ mx.w # 0 => mx.r = {}

\* ---------------------------------------------------------------- C16
\* the number of bytes the first i calls of WriteTo wrote
RECURSIVE WroteUpTo(_)
WroteUpTo(i) == IF i = 0 THEN 0 ELSE WroteUpTo(i - 1) + tret[i].wrote

\* the TLVs whose value fits the length field, in the order they have
FittingTLVs ==
    LET fit == SelectSeq(tlvs, LAMBDA t : t.Len <= MaxTLVValue)
    IN [i \in 1..Len(fit) |-> TLV(fit[i].Type, Fill(fit[i].Len))]

\* C16: WriteTo of a TLV whose value has 65536 bytes or more returns an
\* error and writes nothing, WriteTo of any other TLV succeeds, and
\* ParseTLVs of all the bytes written returns the TLVs written, in order
\* (one TLV for one written).
C16_TLVRoundTrip ==
    /\ \A i \in 1..Len(tret) :
            IF tlvs[i].Len > MaxTLVValue
            THEN tret[i].err # "" /\ tret[i].wrote = 0
            ELSE tret[i].err = ""
    /\ (tres # NotParsed /\ Len(twire) = WroteUpTo(Len(tret))) =>
            (tres.err = "" /\ tres.tlvs = FittingTLVs)

\* a TLV with the longest value that fits and a second TLV were written
\* and parsed back as two TLVs
C16_Witness ==
    /\ tres # NotParsed /\ Len(twire) = WroteUpTo(Len(tret))
    /\ Len(tlvs) = 2
    /\ tlvs[1].Len = MaxTLVValue /\ tlvs[2].Len = 1
    /\ Len(tres.tlvs) = 2 /\ Len(tres.tlvs[1].Value) = MaxTLVValue

\* ---------------------------------------------------------------- C17
\* the first field of a 16-byte prefix that is out of range, in the order
\* signature, version, command, family, protocol, as the error names it
OffendingField(s) ==
    IF SubSeq(s, 1, 12) # sigV2 THEN "invalid signature"
    ELSE IF s[13] \div 16 # 2 THEN "invalid v2 version value"
    ELSE IF s[13] % 16 > 1 THEN "invalid v2 command"
    ELSE IF s[14] \div 16 > 3 THEN "invalid v2 address family"
    ELSE "invalid v2 transport protocol"

\* C17: the binary decoder rejects a 16-byte prefix with a wrong
\* signature, a version other than 2, a command above 1, a family above 3
\* or a protocol above 2: it returns an InvalidHeaderErr that names the
\* first such field, and has consumed the 16 bytes of the prefix and no
\* byte after them.
C17_PrefixRejected ==
    (cjob.kind = "prefix" /\ cpc = "parsed") =>
        /\ ~cres.panic
        /\ cres.hdr = NoHdr
        /\ cres.err.kind = "InvalidHeaderErr"
        /\ cres.err.msg = OffendingField(cjob.s)
        /\ cres.n = 16

\* a prefix with version 1 and protocol 15, followed by more bytes, was
\* rejected for its version
C17_Witness ==
    /\ cjob.kind = "prefix" /\ cpc = "parsed"
    /\ SubSeq(cjob.s, 1, 12) = sigV2 /\ cjob.s[13] = 17 /\ cjob.s[14] = 31
    /\ Len(cjob.s) > 16
    /\ cres.err.msg = "invalid v2 version value" /\ cres.n = 16

\* ---------------------------------------------------------------- C18
\* C18: WriteTo of a header whose source or destination endpoint does not
\* match the declared family/protocol (another type of address or none, an
\* IP of the wrong length, a Unix address of the other net, a Unix path of
\* more than 108 bytes) returns an error and writes nothing.
C18_MismatchRejected ==
    (cjob.kind = "mismatch" /\ cpc # "new") =>
        (~cwire.panic /\ cwire.err # "" /\ cwire.bytes = << >>)

\* ---------------------------------------------------------------- C19
\* C19: in the bytes WriteTo wrote for a valid header, the length field is
\* the number of bytes after the 16-byte prefix, and that number is the
\* size of the address block of the family/protocol (12, 36, 216, or 0
\* without address block) plus the number of trailing bytes.
C19_LengthField ==
    (cjob.kind = "roundtrip" /\ cpc # "new" /\ ~cwire.panic /\ cwire.err = "") =>
        /\ Len(cwire.bytes) >= 16
        /\ Uint16(cwire.bytes[15], cwire.bytes[16]) = Len(cwire.bytes) - 16
        /\ Len(cwire.bytes) - 16
                = addrLen(cjob.h.Family * 16 + cjob.h.Protocol) + Len(cjob.h.Trailing)

\* ---------------------------------------------------------------- C20
\* C20: an error Parse returns is an InvalidHeaderErr, and its Read field
\* holds the bytes consumed from the stream, in order: the first n bytes of
\* the stream when n bytes were consumed.
C20_ErrorCarriesRead ==
    (cjob.kind = "failing" /\ cpc = "parsed" /\ ~cres.panic /\ cres.err # NoErr) =>
        /\ cres.err.kind = "InvalidHeaderErr"
        /\ cres.err.Read = SubSeq(cjob.s, 1, cres.n)

\* ---------------------------------------------------------------- C21
\* rule a has to come before rule b in the table: a longer prefix, or the
\* same prefix length and a larger address width, or the same of both and
\* a non-zero timeout against a zero one or a smaller non-zero timeout
\* against a larger one
RanksBefore(a, b) ==
    IF a.Subnet.ones # b.Subnet.ones THEN a.Subnet.ones > b.Subnet.ones
    ELSE IF a.Subnet.bits # b.Subnet.bits THEN a.Subnet.bits > b.Subnet.bits
    ELSE a.Timeout # 0 /\ (b.Timeout = 0 \/ a.Timeout < b.Timeout)

\* C21: after SetFilter no rule of the stored table stands behind a rule
\* it has to come before (longer prefix first, then larger address width,
\* then non-zero timeouts ascending and before zero timeouts), and
\* rules.Less never ranks two rules of the slice each before the other.
C21_SortedTable ==
    (lret.kind = "SetFilter") =>
        /\ \A i, k \in 1..Len(l_filter) : (i < k) => ~RanksBefore(l_filter[k], l_filter[i])
        /\ \A i, k \in 1..Len(lrules) : ~(Less(lrules, i, k) /\ Less(lrules, k, i))

\* ---------------------------------------------------------------- C22
\* the index of the first '\n' among the first MaxLine bytes of s, 0 when
\* there is none
FirstNewline(s) ==
    IF \E i \in 1..Min2(Len(s), MaxLine) : s[i] = 10
    THEN CHOOSE i \in 1..Min2(Len(s), MaxLine) : s[i] = 10 /\ \A j \in 1..(i - 1) : s[j] # 10
    ELSE 0

\* C22: text decode consumes at most 108 bytes.  When a '\n' is among the
\* first 108 bytes it consumes the bytes up to the first '\n' and returns
\* what field parsing makes of that line alone, never the header-too-long
\* error; when the first 108 bytes hold no '\n' it returns the
\* header-too-long error, no header, and has consumed exactly 108 bytes.
C22_LineCap ==
    (cjob.kind = "line" /\ cpc = "parsed") =>
        /\ ~cres.panic
        /\ cres.n <= MaxLine
        /\ (FirstNewline(cjob.s) # 0) =>
                /\ cres.n = FirstNewline(cjob.s)
                /\ cres.err.msg # "header too long"
                /\ cres = headerOfScan(SubSeq(cjob.s, 1, FirstNewline(cjob.s)),
                                       Sscanf(SubSeq(cjob.s, 1, FirstNewline(cjob.s))))
        /\ (FirstNewline(cjob.s) = 0 /\ Len(cjob.s) >= MaxLine) =>
                /\ cres.n = MaxLine
                /\ cres.hdr = NoHdr
                /\ cres.err.kind = "InvalidHeaderErr"
                /\ cres.err.msg = "header too long"

\* a line whose '\n' is the 108th byte, with bytes behind it, was decoded
\* to a header and the bytes behind it were left in the stream
C22_Witness ==
    /\ cjob.kind = "line" /\ cpc = "parsed"
    /\ FirstNewline(cjob.s) = MaxLine /\ Len(cjob.s) > MaxLine
    /\ cres.err = NoErr /\ cres.hdr.ver = 1 /\ cres.n = MaxLine

\* ---------------------------------------------------------------- C23
\* the line has the four fields behind the family and each is well formed
FourFields(d) == d.nf = 5 /\ d.src.ok /\ d.dst.ok /\ d.sp.ok /\ d.dp.ok

C24_DecodedFields ==
    (cjob.kind = "binary" /\ cpc = "parsed" /\ ~cres.panic /\ cres.err = NoErr) =>
        /\ cres.hdr.ver = 2
        /\ cres.hdr.SourceAddr = cjob.h.SourceAddr
        /\ cres.hdr.DestAddr = cjob.h.DestAddr
        /\ cres.hdr.Trailing = cjob.h.Trailing

\* ---------------------------------------------------------------- C25
\* the number of leading records of FittingTLVs that fill exactly n bytes,
\* -1 when n bytes end inside a record
RECURSIVE WholeRecords(_, _)
WholeRecords(i, n) ==
    IF n = 0 THEN i
    ELSE IF i >= Len(FittingTLVs) \/ n < 3 + Len(FittingTLVs[i + 1].Value) THEN 0 - 1
    ELSE WholeRecords(i + 1, n - 3 - Len(FittingTLVs[i + 1].Value))

\* C25: when the bytes handed to ParseTLVs end inside a record (1 or 2
\* bytes are left where a record starts, or the value is shorter than its
\* length field says) ParseTLVs returns the truncated-input error and no
\* records, the complete ones before it included; when they end with a
\* record it returns every record, in order.
C25_TruncatedNoRecords ==
    (tres # NotParsed) =>
        IF WholeRecords(0, Len(twire)) = 0 - 1
        THEN tres.err = "unexpected EOF" /\ tres.tlvs = << >>
        ELSE tres.err = "" /\ tres.tlvs = SubSeq(FittingTLVs, 1, WholeRecords(0, Len(twire)))

\* two records were written, the second with a value of two bytes; the
\* last byte was cut off, and ParseTLVs returned the error and no record
C25_Witness ==
    /\ tres # NotParsed
    /\ Len(tlvs) = 2 /\ tlvs[1].Len = 1 /\ tlvs[2].Len = 2
    /\ Len(twire) = 8
    /\ tres.err = "unexpected EOF" /\ tres.tlvs = << >>

\* ---------------------------------------------------------------- C26
\* the last call was an Accept of a connection from an IP peer, and rule i
\* is the first rule of the stored table that contains the peer
FirstMatching(i) ==
    /\ lret.kind = "Accept" /\ lret.peer.kind \in {"tcp", "udp"}
    /\ i \in 1..Len(l_filter)
    /\ Contains(l_filter[i].Subnet, lret.peer.IP)
    /\ \A k \in 1..(i - 1) : ~Contains(l_filter[k].Subnet, lret.peer.IP)

\* C26: when the first rule of the table that contains the peer has
\* timeout zero, Accept returns a Conn made with the zero time, which has
\* no header deadline; when it has a timeout d other than zero, Accept
\* returns a Conn whose header deadline is the time of the Accept plus d.
C26_FirstMatchTimeout ==
    \A i \in 1..Len(l_filter) :
        FirstMatching(i) =>
            /\ lret.wrapped
            /\ (l_filter[i].Timeout = 0) => ~lret.timed
            /\ (l_filter[i].Timeout # 0) => (lret.timed /\ lret.timeout = l_filter[i].Timeout)

\* a peer in 10.1.0.0/16 and in 10.0.0.0/8 was accepted under a table whose
\* first rule is for the /16 with timeout zero, followed by a rule with a
\* timeout, and its Conn has no deadline
C26_Witness ==
    /\ FirstMatching(1)
    /\ Len(l_filter) >= 2
    /\ l_filter[1].Timeout = 0 /\ l_filter[2].Timeout # 0
    /\ Contains(l_filter[2].Subnet, lret.peer.IP)
    /\ lret.wrapped /\ ~lret.timed

\* ---------------------------------------------------------------- C27
\* C27: Parse looks at the first byte of the stream and at no other: for
\* 'P' it returns what the text decoder returns on the stream, for 0x0D
\* what the binary decoder returns on it, and for any other byte the
\* invalid-signature error, no header, and no byte consumed.
C27_Dispatch ==
    (cjob.kind = "dispatch" /\ cpc = "parsed") =>
        IF cjob.s[1] = 80 THEN cres = parseV1(cjob.s, "EOF")
        ELSE IF cjob.s[1] = 13
        THEN cres = (IF build = "headerv2.go" THEN parseV2(cjob.s, "EOF")
                     ELSE parseV2_parse_go(cjob.s, "EOF"))
        ELSE /\ ~cres.panic
             /\ cres.hdr = NoHdr
             /\ cres.err.kind = "InvalidHeaderErr"
             /\ cres.err.msg = "invalid signature"
             /\ cres.n = 0

\* "pROXY TCP4 192.168.0.1 192.168.0.2 1234 5678\r\n", a text header but
\* for its first byte, was rejected and none of its bytes consumed
C27_Witness ==
    /\ cjob.kind = "dispatch" /\ cpc = "parsed"
    /\ cjob.s = << 112 >> \o Tail(TextTCP4)
    /\ cres.err.msg = "invalid signature" /\ cres.n = 0

\* ---------------------------------------------------------------- C28
\* goroutine g takes a step of ProxyHeader, LocalAddr, RemoteAddr or Read
\* behind the once.Do of the method: the Parse of c.parse or the read of Read
ReadingStep(g) ==
    /\ op[g].name \in {"ProxyHeader", "LocalAddr", "RemoteAddr", "Read"}
    /\ pc[g] \in {"parse86", "ret"}
    /\ pc'[g] # pc[g]

\* C28: NewConn (and with it Accept, which only calls NewConn) reads
\* nothing from the connection, and bytes are read from it only by a step
\* of ProxyHeader, LocalAddr, RemoteAddr or Read; as long as none of the
\* four was called, no byte is read and Parse is not run, however many
\* SetDeadline and SetReadDeadline calls are made.
C28_Lazy ==
    /\ rpos = 0 /\ parseRuns = 0
    /\ [][(rpos' # rpos \/ parseRuns' # parseRuns) => \E g \in Goroutines : ReadingStep(g)]_vars

\* SetDeadline or SetReadDeadline was called and returned, nothing was
\* read until then, and then the first call of ProxyHeader ran Parse, which
\* read the header
C28_Witness ==
    /\ calls = 2 /\ ~setOverlapped /\ callerLast # 0
    /\ parseRuns = 1 /\ rpos > 0
    /\ \E g \in Goroutines : pc[g] = "parse87" /\ op[g].name = "ProxyHeader"

\* ---------------------------------------------------------------- C29
\* c.parse has returned
ParseCompleted == once = "done" /\ ~crashed

\* C29: once c.parse has returned, exactly one of c.hdr and c.err is set,
\* c.local and c.remote are set only when c.err is not, and no step of
\* Read, ProxyHeader, LocalAddr, RemoteAddr, SetDeadline or
\* SetReadDeadline changes c.hdr, c.err, c.local or c.remote.
C29_Immutable ==
    /\ [](ParseCompleted =>
            /\ (hdr = NoHdr) # (err = NoErr)
            /\ (err # NoErr) => (local = NilAddr /\ remote = NilAddr))
    /\ [][ParseCompleted => UNCHANGED << hdr, err, local, remote >>]_vars

\* the parse succeeded, and a Read that came after it has returned bytes
\* of the payload
C29_Witness ==
    /\ ParseCompleted /\ parseRuns = 1
    /\ hdr # NoHdr /\ err = NoErr /\ remote # NilAddr
    /\ calls = 2 /\ ret.name = "Read" /\ readLog # << >>
    /\ \A g \in Goroutines : pc[g] = "idle"

\* ---------------------------------------------------------------- C30
\* the length field of the bytes WriteTo wrote
WrittenLen == Uint16(cwire.bytes[15], cwire.bytes[16])

\* C30: WriteTo of a header with many trailing bytes returns no error and
\* writes the prefix, the address block and all the trailing bytes; the
\* length field holds the low 16 bits of the total WriteTo computes, so
\* when the total is above 65535 the field is smaller than the number of
\* bytes written behind the prefix.
C30_LengthWraps ==
    (cjob.kind = "long" /\ cpc # "new") =>
        /\ ~cwire.panic /\ cwire.err = ""
        /\ Len(cwire.bytes) >= 16 + Len(cjob.h.Trailing)
        /\ SubSeq(cwire.bytes, Len(cwire.bytes) - Len(cjob.h.Trailing) + 1, Len(cwire.bytes))
                = cjob.h.Trailing
        /\ WrittenLen = Len(cwire.bytes) % (MaxLenField + 1)
        /\ (Len(cwire.bytes) > MaxLenField) => (WrittenLen < Len(cwire.bytes) - 16)

\* a TCP over IPv4 header with 65508 trailing bytes was written: 65536
\* bytes in all, with length field 0
C30_Witness ==
    /\ cjob.kind = "long" /\ cpc = "written"
    /\ cwire.err = "" /\ Len(cwire.bytes) = MaxLenField + 1
    /\ Len(cjob.h.Trailing) = MaxLenField - 27
    /\ WrittenLen = 0

====
